---- MODULE Spec2Model ----
(***************************************************************************)
(* Atlas ingest scripts as a state machine.                                *)
(*                                                                         *)
(*   - ingest_clinichq_upcoming_appointments.py : windowed snapshot of     *)
(*     clinic appointments (upsert by source_pk, stale marking in the      *)
(*     run's coverage window, ingest_runs log, dry-run rollback);          *)
(*   - ingest_airtable_appointment_requests.py : upsert of appointment     *)
(*     requests by source_pk;                                              *)
(*   - ingest_airtable_trapping_requests.py : upsert of trapping requests  *)
(*     by case_number with merge-target resolution (pre-scan map, then     *)
(*     database lookup);                                                   *)
(*   - generate_people_match_candidates.py : match candidates of unlinked  *)
(*     source records (calculate_match, ranking, upsert of candidates);    *)
(*   - compute_source_pk and compute_row_hash of the first two scripts,    *)
(*     called on pairs of rows.                                            *)
(*                                                                         *)
(* A run works on the tables as its own transaction sees them (tx) and     *)
(* the committed tables change when the run commits.  SQL NULL / Python    *)
(* None is the string NULL for text, NoDate for dates, NoNum for numbers   *)
(* and NoRun for run ids; NOW() is the token "ts".                         *)
(***************************************************************************)
EXTENDS Integers, Sequences, FiniteSets, TLC

VARIABLES
    script,       \* the script this behaviour follows the runs of
    schema,       \* which optional tables/columns the database has (MIG_263)
    appts,        \* committed rows of clinichq_upcoming_appointments
    ingest_runs,  \* committed rows of ingest_runs
    apptRun,      \* the upcoming-appointments run in progress (or the last one)
    areqs,        \* committed rows of appointment_requests
    arRun,        \* the appointment-requests run in progress (or the last one)
    reqdb,        \* committed tables of the trapping-requests ingest
    reqRun,       \* the trapping-requests run in progress (or the last one)
    nextRunId,    \* the next fresh run id (uuid4 of main)
    rowsDone,     \* rows read so far from the files given (a re-run reads none anew)
    people,       \* rows of trapper.people
    links,        \* rows of trapper.person_source_link
    matchdb,      \* committed rows of person_match_candidates, and their write log
    matchRun,     \* the candidate-generator run in progress (or the last one)
    keyCall,      \* two rows given to compute_source_pk and compute_row_hash
    pair,         \* two upcoming-appointments runs on one database at once
    fnCall        \* a function of the scripts called on arguments of its own

vars == <<script, schema, appts, ingest_runs, apptRun, areqs, arRun, reqdb, reqRun,
          nextRunId, rowsDone, people, links, matchdb, matchRun, keyCall, pair, fnCall>>

----------------------------------------------------------------------------
(* Bounds of the model. *)

MaxRuns == 3
MaxRows == 2
MaxReqRows == 3
MaxReqRuns == 2

\* Runs of the candidate generator.
MaxMatchRuns == 2

\* The last candidate of a batch whose INSERT may be made to fail.
MaxFailAt == 2

\* People in the table the generator's runs read.
MaxPeople == 3

\* Length of the longest display name.
LongName == 201

\* Length of the longest name name_similarity is called on by itself.
MaxNameLen == 3

----------------------------------------------------------------------------
(* Null values. *)

NULL == "NULL"
NoDate == 0
NoNum == -1
NoRun == 0

\* An assignment `col = EXCLUDED.col` in place of the COALESCE.
ExcludedValue(new, old, null) == new

\* COALESCE(new, old) of SQL, for a column whose null value is `null`.
Coalesce(new, old, null) == IF new # null THEN new ELSE old

\* The null value of an id column (ids are the rows' unique keys).
NoId == <<>>

\* `x or None` of Python on a string.
OrNone(s) == IF s = "" THEN NULL ELSE s

----------------------------------------------------------------------------
(* Cell values and their conversions (lookup tables over the cells the     *)
(* model's input rows use).                                                *)

\* norm_ws: None gives "", whitespace is collapsed and trimmed.
NormWs(v) ==
    CASE v = NULL -> ""
      [] v = " " -> ""
      [] v = " Ann" -> "Ann"
      [] OTHER -> v

\* str.lower
Lower(s) ==
    CASE s = "Ann" -> "ann"
      [] s = "A@X.org" -> "a@x.org"
      [] s = "In Progress" -> "in progress"
      [] s = "New" -> "new"
      [] s = "Bogus" -> "bogus"
      [] s = "Dup" -> "dup"
      [] s = "Scheduled" -> "scheduled"
      [] s = "High" -> "high"
      [] s = "12 Elm St." -> "12 elm st."
      [] OTHER -> s

\* str.strip
Strip(v) ==
    CASE v = " " -> ""
      [] v = " Ann" -> "Ann"
      [] OTHER -> v

\* parse_date of the appointments script: three formats, else None.
ParseDate(v) ==
    CASE v = "01/01/2025" -> 1
      [] v = "01/02/2025" -> 2
      [] v = "2025-01-02" -> 2
      [] OTHER -> NoDate

\* parse_int of the appointments script: int(val), else None.
ParseInt(v) ==
    CASE v = "7" -> 7
      [] v = "0" -> 0
      [] v = "-5" -> -5
      [] OTHER -> NoNum

\* normalize_phone of the appointments script: digits only, a leading 1 of
\* 11 digits dropped, None when no digit is left.
NormalizePhone(v) ==
    CASE v = NULL -> NULL
      [] v = "555-010-0100" -> "5550100100"
      [] v = "1 (555) 010-0100" -> "5550100100"
      [] v = "555-010-0199" -> "5550100199"
      [] OTHER -> NULL

\* str(d) of a date (ISO), str(n) of an int and str(v) of a text; None
\* prints as "None".
StrDate(d) ==
    CASE d = NoDate -> "None"
      [] d = 1 -> "2025-01-01"
      [] d = 2 -> "2025-01-02"

StrInt(n) == IF n = NoNum THEN "None" ELSE ToString(n)

StrText(v) == IF v = NULL THEN "None" ELSE v

\* "|".join(fields)
RECURSIVE Join(_)
Join(fields) ==
    IF Len(fields) = 0 THEN ""
    ELSE IF Len(fields) = 1 THEN fields[1]
    ELSE fields[1] \o "|" \o Join(Tail(fields))

----------------------------------------------------------------------------
(* ingest_clinichq_upcoming_appointments.py                                *)

\* One XLSX row: identity texts t, contact texts u, phone cell p.
ApptRaw(d, n, t, u, p) ==
    [Date |-> d, Number |-> n, AnimalName |-> t, Ownership |-> u,
     ClientType |-> u, OwnerFirstName |-> t, OwnerLastName |-> t,
     OwnerAddress |-> t, OwnerCellPhone |-> p, OwnerPhone |-> p,
     OwnerEmail |-> u]

\* The rows an XLSX file of the model may hold.
ApptRows ==
    { ApptRaw("01/01/2025", "7", "ann", "ann", "555-010-0100"),
      ApptRaw("01/02/2025", "7", " ", NULL, NULL),
      ApptRaw("2025-01-02", "", "ann", "ann", "1 (555) 010-0100"),
      ApptRaw("01/02/2025", "0", " Ann", "bob", NULL),
      ApptRaw("n/a", "7", "ann", "ann", NULL),
      ApptRaw("", "", " ", NULL, NULL) }

\* The file names a run may be given, and the YYYY-MM-DD matches of each
\* (BadDate: digits that match the pattern and are no date).
BadDate == 99

FilenameMatches(f) ==
    CASE f = "appts_2025-01-01_2025-01-01.xlsx" -> <<1, 1>>
      [] f = "appts_2025-01-01_2025-01-02.xlsx" -> <<1, 2>>
      [] f = "appts_2025-13-01_2025-01-02.xlsx" -> <<BadDate, 2>>
      [] OTHER -> <<>>

ApptFilenames ==
    { "appts.xlsx", "appts_2025-01-01_2025-01-01.xlsx" }

\* File names with no date, two dates, and a first match that is no date.
WindowFilenames ==
    { "appts.xlsx", "appts_2025-01-01_2025-01-02.xlsx",
      "appts_2025-13-01_2025-01-02.xlsx" }

IsBlankCell(v) == v = NULL \/ Strip(v) = ""

ApptIsBlankRow(row) ==
    /\ IsBlankCell(row.Date) /\ IsBlankCell(row.Number)
    /\ IsBlankCell(row.AnimalName) /\ IsBlankCell(row.Ownership)
    /\ IsBlankCell(row.ClientType) /\ IsBlankCell(row.OwnerFirstName)
    /\ IsBlankCell(row.OwnerLastName) /\ IsBlankCell(row.OwnerAddress)
    /\ IsBlankCell(row.OwnerCellPhone) /\ IsBlankCell(row.OwnerPhone)
    /\ IsBlankCell(row.OwnerEmail)

\* The fields upsert_appointment maps from the XLSX columns.
ApptFields(row) ==
    [appt_date |-> ParseDate(row.Date),
     appt_number |-> ParseInt(row.Number),
     animal_name |-> NormWs(row.AnimalName),
     ownership_type |-> NormWs(row.Ownership),
     client_type |-> NormWs(row.ClientType),
     client_first_name |-> NormWs(row.OwnerFirstName),
     client_last_name |-> NormWs(row.OwnerLastName),
     client_address |-> NormWs(row.OwnerAddress),
     client_cell_phone |-> NormalizePhone(row.OwnerCellPhone),
     client_phone |-> NormalizePhone(row.OwnerPhone),
     client_email |-> NormWs(row.OwnerEmail)]

\* compute_source_pk: the appointment number when positive, else the digest
\* of date|name|address|animal (the digest is the tuple it is taken of).
ApptSourcePk(n) ==
    IF n.appt_number # NoNum /\ n.appt_number > 0
    THEN [num |-> n.appt_number, key |-> <<>>]
    ELSE [num |-> NoNum,
          key |-> <<n.appt_date,
                    Lower(NormWs(n.client_first_name)),
                    Lower(NormWs(n.client_last_name)),
                    Lower(NormWs(n.client_address)),
                    Lower(NormWs(n.animal_name))>>]

\* compute_row_hash: the digest of the nine content fields joined by "|"
\* (the digest is the string it is taken of).
ApptRowHash(n) ==
    Join(<<StrDate(n.appt_date), StrInt(n.appt_number),
           NormWs(n.client_first_name), NormWs(n.client_last_name),
           NormWs(n.client_address), NormWs(n.animal_name),
           NormWs(n.client_email), StrText(n.client_cell_phone),
           StrText(n.client_phone)>>)

\* The VALUES of the INSERT: the parameters bound at lines 289-296.
ApptExcluded(row, source_file) ==
    LET n == ApptFields(row) IN
    [source_file |-> source_file,
     source_row_hash |-> ApptRowHash(n),
     source_system |-> "clinichq",
     source_pk |-> ApptSourcePk(n),
     appt_date |-> n.appt_date,
     appt_number |-> n.appt_number,
     client_first_name |-> OrNone(n.client_first_name),
     client_last_name |-> OrNone(n.client_last_name),
     client_address |-> OrNone(n.client_address),
     client_cell_phone |-> n.client_cell_phone,
     client_phone |-> n.client_phone,
     client_email |-> OrNone(n.client_email),
     client_type |-> OrNone(n.client_type),
     animal_name |-> OrNone(n.animal_name),
     ownership_type |-> OrNone(n.ownership_type),
     first_seen_at |-> "ts",
     last_seen_at |-> "ts"]

\* An upsert that stamps stale_at.
WindowedColumnsStamped(run_id) ==
    [last_seen_run_id |-> run_id, is_current |-> TRUE, stale_at |-> "ts"]

\* The three columns of MIG_263 as an INSERT sets them.
WindowedColumns(run_id) ==
    [last_seen_run_id |-> run_id, is_current |-> TRUE, stale_at |-> NULL]

\* Record r with the fields of record s set (s's fields win).
Override(r, s) ==
    [k \in (DOMAIN r) \cup (DOMAIN s) |-> IF k \in DOMAIN s THEN s[k] ELSE r[k]]

\* ON CONFLICT (source_system, source_pk) DO UPDATE SET ... of both modes.
ApptConflictUpdate(old, ex) ==
    [old EXCEPT
       !.source_file = ex.source_file,
       !.source_row_hash = ex.source_row_hash,
       !.appt_date = ex.appt_date,
       !.appt_number = Coalesce(ex.appt_number, old.appt_number, NoNum),
       !.client_first_name = Coalesce(ex.client_first_name, old.client_first_name, NULL),
       !.client_last_name = Coalesce(ex.client_last_name, old.client_last_name, NULL),
       !.client_address = Coalesce(ex.client_address, old.client_address, NULL),
       !.client_cell_phone = Coalesce(ex.client_cell_phone, old.client_cell_phone, NULL),
       !.client_phone = Coalesce(ex.client_phone, old.client_phone, NULL),
       !.client_email = Coalesce(ex.client_email, old.client_email, NULL),
       !.animal_name = Coalesce(ex.animal_name, old.animal_name, NULL),
       !.last_seen_at = "ts"]

\* A conflict target on the content hash instead of the identity key.
ApptConflictsOnRowHash(T, ex) ==
    {r \in T : r.source_system = ex.source_system
                /\ r.source_row_hash = ex.source_row_hash}

\* The rows of table T the INSERT conflicts with.
ApptConflicts(T, ex) ==
    {r \in T : r.source_system = ex.source_system /\ r.source_pk = ex.source_pk}

\* upsert_appointment taking the windowed branch whatever the probe found.
UpsertAppointmentWindowed(T, row, source_file, run_id, has_windowed_columns) ==
    LET n == ApptFields(row)
        ex == ApptExcluded(row, source_file)
        hit == ApptConflicts(T, ex)
    IN  IF n.appt_date = NoDate
        THEN [tbl |-> T, inserted |-> FALSE, updated |-> FALSE]
        ELSE IF hit = {}
        THEN [tbl |-> T \cup {Override(ex, WindowedColumns(run_id))},
              inserted |-> TRUE, updated |-> FALSE]
        ELSE [tbl |-> (T \ hit) \cup
                      {Override(ApptConflictUpdate(old, ex), WindowedColumns(run_id)) :
                         old \in hit},
              inserted |-> FALSE, updated |-> TRUE]

\* upsert_appointment: the table after the call and (inserted, updated).
UpsertAppointment(T, row, source_file, run_id, has_windowed_columns) ==
    LET n == ApptFields(row)
        ex == ApptExcluded(row, source_file)
        hit == ApptConflicts(T, ex)
        new == IF has_windowed_columns
               THEN Override(ex, WindowedColumns(run_id)) ELSE ex
        upd(old) == IF has_windowed_columns
                    THEN Override(ApptConflictUpdate(old, ex), WindowedColumns(run_id))
                    ELSE ApptConflictUpdate(old, ex)
    IN  IF n.appt_date = NoDate
        THEN [tbl |-> T, inserted |-> FALSE, updated |-> FALSE]
        ELSE IF hit = {}
        THEN [tbl |-> T \cup {new}, inserted |-> TRUE, updated |-> FALSE]
        ELSE [tbl |-> (T \ hit) \cup {upd(old) : old \in hit},
              inserted |-> FALSE, updated |-> TRUE]

\* The WHERE clause without its two appt_date conditions.
StaleCandidateAnyDate(r, run_id, coverage_start, coverage_end) ==
    /\ r.is_current = TRUE
    /\ (r.last_seen_run_id = NoRun \/ r.last_seen_run_id # run_id)

\* The WHERE clause of mark_stale_in_window.
StaleCandidate(r, run_id, coverage_start, coverage_end) ==
    /\ r.is_current = TRUE
    /\ r.appt_date >= coverage_start
    /\ r.appt_date <= coverage_end
    /\ (r.last_seen_run_id = NoRun \/ r.last_seen_run_id # run_id)

\* An UPDATE that matches no row.
MarkStaleInWindowNoRow(T, run_id, coverage_start, coverage_end) ==
    [tbl |-> T, staled |-> 0]

\* mark_stale_in_window: the table after the UPDATE and its row count.
MarkStaleInWindow(T, run_id, coverage_start, coverage_end) ==
    LET hit == {r \in T : StaleCandidate(r, run_id, coverage_start, coverage_end)}
    IN  [tbl |-> (T \ hit) \cup
                 {[r EXCEPT !.is_current = FALSE, !.stale_at = "ts"] : r \in hit},
         staled |-> Cardinality(hit)]

\* The first two matches taken as they are, parsable or not.
ParseCoverageWindowUnchecked(f) ==
    LET m == FilenameMatches(f) IN
    IF Len(m) >= 2 THEN <<m[1], m[2]>> ELSE <<NoDate, NoDate>>

\* parse_coverage_window_from_filename: (start, end), or (None, None).
ParseCoverageWindowFromFilename(f) ==
    LET m == FilenameMatches(f) IN
    IF Len(m) >= 2 /\ m[1] # BadDate /\ m[2] # BadDate
    THEN <<m[1], m[2]>>
    ELSE <<NoDate, NoDate>>

\* A run that commits whether it is dry or not.
CommitAnyway(dry_run, committed, tx) == tx

\* The end of main (lines 518-522; 279-283 of the appointment-requests
\* script): conn.rollback() in a dry run leaves the committed table as it
\* was, conn.commit() replaces it by the transaction's.
CommitOrRollback(dry_run, committed, tx) == IF dry_run THEN committed ELSE tx

ApptCounters0 ==
    [rows_processed |-> 0, rows_inserted |-> 0, rows_updated |-> 0,
     rows_skipped_blank |-> 0, rows_staled |-> 0]

ApptIdle ==
    [phase |-> "idle", run_id |-> NoRun, source_file |-> "", dry_run |-> FALSE,
     coverage_start |-> NoDate, coverage_end |-> NoDate,
     data_min_date |-> NoDate, data_max_date |-> NoDate,
     counters |-> ApptCounters0, tx |-> {}, tx0 |-> {},
     dates |-> {}, last |-> [kind |-> "none"]]

\* No script is between its first row and its commit.
NoRunActive ==
    /\ apptRun.phase # "rows"
    /\ arRun.phase # "rows"
    /\ reqRun.phase # "rows"

\* main, up to the loop: a fresh run_id, the window of the file name, and the
\* transaction opened on the committed table.
ApptStart(f, dry) ==
    /\ script = "appointments"
    /\ NoRunActive
    /\ nextRunId <= MaxRuns
    /\ apptRun' = [phase |-> "rows", run_id |-> nextRunId, source_file |-> f,
                   dry_run |-> dry,
                   coverage_start |-> ParseCoverageWindowFromFilename(f)[1],
                   coverage_end |-> ParseCoverageWindowFromFilename(f)[2],
                   data_min_date |-> NoDate, data_max_date |-> NoDate,
                   counters |-> ApptCounters0, tx |-> appts, tx0 |-> appts,
                   dates |-> {}, last |-> [kind |-> "none"]]
    /\ nextRunId' = nextRunId + 1
    /\ UNCHANGED <<script, schema, appts, ingest_runs, areqs, arRun, reqdb, reqRun, rowsDone, people, links, matchdb, matchRun, keyCall, pair, fnCall>>

\* What the last call of upsert_appointment did: the stored row before
\* (old), the bound values (ex) and the stored row after (new).
ApptLast(T, row, source_file, res) ==
    LET ex == ApptExcluded(row, source_file)
        hit == ApptConflicts(T, ex)
    IN  IF ~res.inserted /\ ~res.updated
        THEN [kind |-> "skip", ex |-> ex]
        ELSE IF res.inserted
        THEN [kind |-> "insert", ex |-> ex,
              new |-> CHOOSE r \in res.tbl : r.source_pk = ex.source_pk]
        ELSE [kind |-> "update", ex |-> ex,
              old |-> CHOOSE r \in hit : TRUE,
              new |-> CHOOSE r \in res.tbl : r.source_pk = ex.source_pk]

\* One iteration of main's loop over the rows.
ApptRow(row) ==
    /\ apptRun.phase = "rows"
    /\ rowsDone < MaxRows
    /\ rowsDone' = rowsDone + 1
    /\ IF ApptIsBlankRow(row)
       THEN apptRun' = [apptRun EXCEPT
                          !.counters.rows_skipped_blank = @ + 1,
                          !.last = [kind |-> "blank"]]
       ELSE LET res == UpsertAppointment(apptRun.tx, row, apptRun.source_file,
                                         apptRun.run_id, schema.windowed)
                d == ParseDate(row.Date)
                c == apptRun.counters
            IN  apptRun' = [apptRun EXCEPT
                  !.tx = res.tbl,
                  !.counters = [c EXCEPT
                      !.rows_processed = @ + 1,
                      !.rows_inserted = IF res.inserted THEN @ + 1 ELSE @,
                      !.rows_updated = IF ~res.inserted /\ res.updated THEN @ + 1 ELSE @],
                  !.data_min_date =
                      IF d # NoDate /\ (@ = NoDate \/ d < @) THEN d ELSE @,
                  !.data_max_date =
                      IF d # NoDate /\ (@ = NoDate \/ d > @) THEN d ELSE @,
                  !.dates = IF d # NoDate THEN @ \cup {d} ELSE @,
                  !.last = ApptLast(apptRun.tx, row, apptRun.source_file, res)]
    /\ UNCHANGED <<script, schema, appts, ingest_runs, areqs, arRun, reqdb, reqRun, nextRunId, people, links, matchdb, matchRun, keyCall, pair, fnCall>>

\* The row log_ingest_run inserts.
IngestRunRow(run, cs, ce, counters) ==
    [run_id |-> run.run_id, source_type |-> "clinichq_upcoming",
     source_file |-> run.source_file, coverage_start |-> cs, coverage_end |-> ce,
     rows_processed |-> counters.rows_processed,
     rows_inserted |-> counters.rows_inserted,
     rows_updated |-> counters.rows_updated,
     rows_staled |-> counters.rows_staled,
     notes |-> NULL]

\* main, after the loop: the final window, stale marking, the run log, and
\* commit or (dry-run) rollback.
ApptFinish ==
    /\ apptRun.phase = "rows"
    /\ LET cs == IF apptRun.coverage_start = NoDate
                 THEN apptRun.data_min_date ELSE apptRun.coverage_start
           ce == IF apptRun.coverage_end = NoDate
                 THEN apptRun.data_max_date ELSE apptRun.coverage_end
           marks == schema.windowed /\ cs # NoDate /\ ce # NoDate
           marked == IF marks
                     THEN MarkStaleInWindow(apptRun.tx, apptRun.run_id, cs, ce)
                     ELSE [tbl |-> apptRun.tx, staled |-> 0]
           counters == [apptRun.counters EXCEPT !.rows_staled = marked.staled]
       IN  /\ apptRun' = [apptRun EXCEPT
                            !.phase = "done", !.coverage_start = cs,
                            !.coverage_end = ce, !.counters = counters,
                            !.tx = marked.tbl]
           /\ appts' = CommitOrRollback(apptRun.dry_run, appts, marked.tbl)
           /\ ingest_runs' =
                IF schema.ingest_runs /\ ~apptRun.dry_run
                THEN ingest_runs \cup {IngestRunRow(apptRun, cs, ce, counters)}
                ELSE ingest_runs
    /\ UNCHANGED <<script, schema, areqs, arRun, reqdb, reqRun, nextRunId, rowsDone, people, links, matchdb, matchRun, keyCall, pair, fnCall>>

\* The script is killed inside the loop of main: neither conn.commit() nor
\* conn.rollback() (lines 518-522) is reached and the server rolls the open
\* transaction back.
ApptInterrupt ==
    /\ apptRun.phase = "rows"
    /\ apptRun' = [apptRun EXCEPT !.phase = "interrupted", !.tx = appts]
    /\ UNCHANGED <<script, schema, appts, ingest_runs, areqs, arRun, reqdb, reqRun, nextRunId, rowsDone, people, links, matchdb, matchRun, keyCall, pair, fnCall>>

NextAppt ==
    \/ \E f \in ApptFilenames, dry \in BOOLEAN : ApptStart(f, dry)
    \/ \E row \in ApptRows : ApptRow(row)
    \/ ApptFinish

\* One appointment as three exports show it: without a number, with the
\* number 0, and with the number the clinic gave it later.
GainIdApptRows ==
    { ApptRaw("01/02/2025", "", "ann", "ann", NULL),
      ApptRaw("01/02/2025", "0", "ann", "ann", NULL),
      ApptRaw("01/02/2025", "7", "ann", "ann", NULL) }

\* The same script given exports of that appointment.
NextApptGainId ==
    \/ \E f \in ApptFilenames, dry \in BOOLEAN : ApptStart(f, dry)
    \/ \E row \in GainIdApptRows : ApptRow(row)
    \/ ApptFinish

\* The same script given the file names of WindowFilenames, without --dry-run.
NextApptWindow ==
    \/ \E f \in WindowFilenames : ApptStart(f, FALSE)
    \/ \E row \in ApptRows : ApptRow(row)
    \/ ApptFinish

----------------------------------------------------------------------------
(* ingest_airtable_appointment_requests.py                                 *)

\* parse_datetime / parse_date of the requests script: ISO text, else None.
ParseIso(v) ==
    CASE v = "01/01/2025" -> "2025-01-01"
      [] v = "2025-01-01" -> "2025-01-01"
      [] v = "01/02/2025" -> "2025-01-02"
      [] OTHER -> NULL

\* parse_int of the requests script: the leading digits, else None.
ParseCount(v) ==
    CASE v = "3" -> 3
      [] v = "0-5" -> 0
      [] OTHER -> NoNum

\* re.sub(r"\D+", "", phone)
Digits(v) ==
    CASE v = "555-010-0100" -> "5550100100"
      [] v = "1 (555) 010-0100" -> "15550100100"
      [] v = "555-010-0199" -> "5550100199"
      [] OTHER -> ""

\* One CSV row: record id, submission time, person texts t, phone p,
\* requester texts w, cat count c, appointment date d.
ArRaw(rid, sub, t, p, w, c, d) ==
    [RecordID |-> rid, NewSubmitted |-> sub, Name |-> t, FirstName |-> t,
     LastName |-> t, Email |-> t, Phone |-> p, YourAddress |-> w,
     YourCity |-> w, YourZip |-> w, CatsAddress |-> t, CleanAddress |-> t,
     County |-> w, CatCount |-> c, Situation |-> w, Notes |-> w,
     SubmissionStatus |-> w, AppointmentDate |-> d]

\* The rows a CSV file of the model may hold.
ArRows ==
    { ArRaw("recA", "01/01/2025", "ann", "555-010-0100", "ann", "3", "01/02/2025"),
      ArRaw("recA", "01/01/2025", "bob", "1 (555) 010-0100", "bob", "0-5", "01/01/2025"),
      ArRaw("recA", "", " ", "", "", "many", ""),
      ArRaw("", "01/01/2025", "ann", "555-010-0100", "bob", "", ""),
      ArRaw("", "01/01/2025", " Ann", "555-010-0100", "", "3", "01/02/2025"),
      ArRaw("", "", " ", "", "", "", "") }

ArFilenames == { "requests.csv" }

\* first_present over the one column the model gives each field.
FirstPresent(v) == IF Strip(v) # "" THEN Strip(v) ELSE ""

ArIsBlankRow(row) == \A k \in DOMAIN row : Strip(row[k]) = ""

\* compute_source_pk: the Airtable record id when present, else the digest of
\* submitted|email|phone|address.
ArSourcePk(row) ==
    IF FirstPresent(row.RecordID) # ""
    THEN [id |-> FirstPresent(row.RecordID), key |-> <<>>]
    ELSE [id |-> "",
          key |-> <<FirstPresent(row.NewSubmitted),
                    Lower(FirstPresent(row.Email)),
                    Digits(FirstPresent(row.Phone)),
                    Lower(NormWs(FirstPresent(row.CatsAddress)))>>]

\* compute_row_hash: the digest of the eleven content fields joined by "|".
ArRowHash(row) ==
    Join(<<FirstPresent(row.NewSubmitted), FirstPresent(row.Name),
           FirstPresent(row.FirstName), FirstPresent(row.LastName),
           FirstPresent(row.Email), FirstPresent(row.Phone),
           FirstPresent(row.CatsAddress), FirstPresent(row.CleanAddress),
           FirstPresent(row.Notes), FirstPresent(row.SubmissionStatus),
           FirstPresent(row.AppointmentDate)>>)

\* The VALUES of the INSERT: the parameters bound at lines 215-222.
ArExcluded(row, source_file) ==
    [source_file |-> source_file,
     source_row_hash |-> ArRowHash(row),
     source_system |-> "airtable",
     source_pk |-> ArSourcePk(row),
     airtable_record_id |-> OrNone(FirstPresent(row.RecordID)),
     submitted_at |-> ParseIso(FirstPresent(row.NewSubmitted)),
     requester_name |-> OrNone(FirstPresent(row.Name)),
     first_name |-> OrNone(FirstPresent(row.FirstName)),
     last_name |-> OrNone(FirstPresent(row.LastName)),
     email |-> OrNone(FirstPresent(row.Email)),
     phone |-> OrNone(FirstPresent(row.Phone)),
     requester_address |-> OrNone(FirstPresent(row.YourAddress)),
     requester_city |-> OrNone(FirstPresent(row.YourCity)),
     requester_zip |-> OrNone(FirstPresent(row.YourZip)),
     cats_address |-> OrNone(FirstPresent(row.CatsAddress)),
     cats_address_clean |-> OrNone(FirstPresent(row.CleanAddress)),
     county |-> OrNone(FirstPresent(row.County)),
     cat_count_estimate |-> ParseCount(FirstPresent(row.CatCount)),
     situation_description |-> OrNone(FirstPresent(row.Situation)),
     notes |-> OrNone(FirstPresent(row.Notes)),
     submission_status |-> OrNone(FirstPresent(row.SubmissionStatus)),
     appointment_date |-> ParseIso(FirstPresent(row.AppointmentDate)),
     first_seen_at |-> "ts",
     last_seen_at |-> "ts"]

\* ON CONFLICT (source_system, source_pk) DO UPDATE SET ...
ArConflictUpdate(old, ex) ==
    [old EXCEPT
       !.source_file = ex.source_file,
       !.source_row_hash = ex.source_row_hash,
       !.airtable_record_id = Coalesce(ex.airtable_record_id, old.airtable_record_id, NULL),
       !.submitted_at = Coalesce(ex.submitted_at, old.submitted_at, NULL),
       !.requester_name = Coalesce(ex.requester_name, old.requester_name, NULL),
       !.first_name = Coalesce(ex.first_name, old.first_name, NULL),
       !.last_name = Coalesce(ex.last_name, old.last_name, NULL),
       !.email = Coalesce(ex.email, old.email, NULL),
       !.phone = Coalesce(ex.phone, old.phone, NULL),
       !.cats_address = Coalesce(ex.cats_address, old.cats_address, NULL),
       !.cats_address_clean = Coalesce(ex.cats_address_clean, old.cats_address_clean, NULL),
       !.submission_status = Coalesce(ex.submission_status, old.submission_status, NULL),
       !.appointment_date = Coalesce(ex.appointment_date, old.appointment_date, NULL),
       !.notes = Coalesce(ex.notes, old.notes, NULL),
       !.last_seen_at = "ts"]

ArConflicts(T, ex) ==
    {r \in T : r.source_system = ex.source_system /\ r.source_pk = ex.source_pk}

\* upsert_appointment_request: the table after the call and (inserted, updated).
UpsertAppointmentRequest(T, row, source_file) ==
    LET ex == ArExcluded(row, source_file)
        hit == ArConflicts(T, ex)
    IN  IF hit = {}
        THEN [tbl |-> T \cup {ex}, inserted |-> TRUE, updated |-> FALSE]
        ELSE [tbl |-> (T \ hit) \cup {ArConflictUpdate(old, ex) : old \in hit},
              inserted |-> FALSE, updated |-> TRUE]

ArCounters0 ==
    [rows_processed |-> 0, rows_inserted |-> 0, rows_updated |-> 0,
     rows_skipped_blank |-> 0]

ArIdle ==
    [phase |-> "idle", source_file |-> "", dry_run |-> FALSE,
     counters |-> ArCounters0, tx |-> {}, last |-> [kind |-> "none"]]

\* main, up to the loop.
ArStart(f, dry) ==
    /\ script = "appointment_requests"
    /\ NoRunActive
    /\ nextRunId <= MaxRuns
    /\ arRun' = [phase |-> "rows", source_file |-> f, dry_run |-> dry,
                 counters |-> ArCounters0, tx |-> areqs,
                 last |-> [kind |-> "none"]]
    /\ nextRunId' = nextRunId + 1
    /\ UNCHANGED <<script, schema, appts, ingest_runs, apptRun, areqs, reqdb, reqRun, rowsDone, people, links, matchdb, matchRun, keyCall, pair, fnCall>>

\* What the last call of upsert_appointment_request did.
ArLast(T, row, source_file, res) ==
    LET ex == ArExcluded(row, source_file)
        hit == ArConflicts(T, ex)
    IN  IF res.inserted
        THEN [kind |-> "insert", ex |-> ex,
              new |-> CHOOSE r \in res.tbl : r.source_pk = ex.source_pk]
        ELSE [kind |-> "update", ex |-> ex,
              old |-> CHOOSE r \in hit : TRUE,
              new |-> CHOOSE r \in res.tbl : r.source_pk = ex.source_pk]

\* One iteration of main's loop over the rows.
ArRow(row) ==
    /\ arRun.phase = "rows"
    /\ rowsDone < MaxRows
    /\ rowsDone' = rowsDone + 1
    /\ IF ArIsBlankRow(row)
       THEN arRun' = [arRun EXCEPT
                        !.counters.rows_skipped_blank = @ + 1,
                        !.last = [kind |-> "blank"]]
       ELSE LET res == UpsertAppointmentRequest(arRun.tx, row, arRun.source_file)
                c == arRun.counters
            IN  arRun' = [arRun EXCEPT
                  !.tx = res.tbl,
                  !.counters = [c EXCEPT
                      !.rows_processed = @ + 1,
                      !.rows_inserted = IF res.inserted THEN @ + 1 ELSE @,
                      !.rows_updated = IF ~res.inserted /\ res.updated THEN @ + 1 ELSE @],
                  !.last = ArLast(arRun.tx, row, arRun.source_file, res)]
    /\ UNCHANGED <<script, schema, appts, ingest_runs, apptRun, areqs, reqdb, reqRun, nextRunId, people, links, matchdb, matchRun, keyCall, pair, fnCall>>

\* main, after the loop: commit or (dry-run) rollback.
ArFinish ==
    /\ arRun.phase = "rows"
    /\ arRun' = [arRun EXCEPT !.phase = "done"]
    /\ areqs' = CommitOrRollback(arRun.dry_run, areqs, arRun.tx)
    /\ UNCHANGED <<script, schema, appts, ingest_runs, apptRun, reqdb, reqRun, nextRunId, rowsDone, people, links, matchdb, matchRun, keyCall, pair, fnCall>>

NextAr ==
    \/ \E f \in ArFilenames, dry \in BOOLEAN : ArStart(f, dry)
    \/ \E row \in ArRows : ArRow(row)
    \/ ArFinish

----------------------------------------------------------------------------
(* ingest_airtable_trapping_requests.py                                    *)

\* normalize_text: lower case, punctuation dropped, whitespace collapsed.
NormalizeText(v) ==
    CASE Lower(Strip(v)) = "12 elm st." -> "12 elm st"
      [] OTHER -> Lower(Strip(v))

\* normalize_phone of the trapping script: digits, "" when there is none.
ReqNormalizePhone(v) == IF NormalizePhone(v) = NULL THEN "" ELSE NormalizePhone(v)

\* parse_float: the number a cell holds (its text stands for it), else None.
ParseFloat(v) == IF Strip(v) \in {"38.5", "-122.8"} THEN Strip(v) ELSE NULL

\* coerce_request_status: the mapping table, then the snake_case fallback
\* into the allowed set.
RequestStatuses ==
    {"new", "needs_review", "active", "scheduled", "in_progress", "paused",
     "resolved", "closed"}

\* re.sub(r"\s+", " ", s).strip(), and " ".join(s.split())
CollapseSpaces(s) ==
    CASE s = "in  progress" -> "in progress"
      [] OTHER -> s

\* re.sub(r"[^a-z0-9]+", "_", s0).strip("_")
SnakeCase(s0) ==
    CASE s0 = "needs review" -> "needs_review"
      [] s0 = "in progress" -> "in_progress"
      [] s0 = "in-progress" -> "in_progress"
      [] s0 = "new!" -> "new"
      [] s0 = "on hold" -> "on_hold"
      [] s0 = "not closed" -> "not_closed"
      [] s0 = "complete/closed" -> "complete_closed"
      [] s0 = "complete / closed" -> "complete_closed"
      [] s0 = "need to re-book" -> "need_to_re_book"
      [] s0 = "need to re book" -> "need_to_re_book"
      [] s0 = "needs attention" -> "needs_attention"
      [] s0 = "partially complete" -> "partially_complete"
      [] s0 = "referred elsewhere" -> "referred_elsewhere"
      [] s0 = "duplicate request" -> "duplicate_request"
      [] OTHER -> s0

\* A mapping that passes an unlisted text on as it is spelled.
CoerceRequestStatusGuessing(raw) ==
    IF Strip(raw) = "" THEN NULL
    ELSE CASE CollapseSpaces(Lower(Strip(raw))) \in {"new", "requested"} -> "new"
           [] CollapseSpaces(Lower(Strip(raw))) \in {"in progress", "partially complete"}
                -> "in_progress"
           [] OTHER -> SnakeCase(CollapseSpaces(Lower(Strip(raw))))

CoerceRequestStatus(raw) ==
    LET s == Strip(raw)
        s0 == CollapseSpaces(Lower(s))
    IN  IF s = "" THEN NULL
        ELSE CASE s0 \in {"new", "requested"} -> "new"
               [] s0 \in {"needs attention", "need to re-book", "need to re book"}
                    -> "needs_review"
               [] s0 \in {"in progress", "partially complete"} -> "in_progress"
               [] s0 = "revisit" -> "active"
               [] s0 \in {"complete/closed", "complete / closed", "complete", "closed"}
                    -> "closed"
               [] s0 = "hold" -> "paused"
               [] s0 = "referred elsewhere" -> "resolved"
               [] s0 \in {"duplicate request", "duplicate", "denied"} -> "closed"
               [] OTHER -> IF SnakeCase(s0) \in RequestStatuses
                           THEN SnakeCase(s0) ELSE NULL

\* coerce_archive_reason
CoerceArchiveReason(raw_status) ==
    LET s == CollapseSpaces(Lower(Strip(raw_status)))
    IN  CASE s = "" -> NULL
          [] s \in {"duplicate request", "duplicate", "dup"} -> "duplicate"
          [] s = "denied" -> "denied"
          [] s \in {"referred elsewhere", "referred", "refer elsewhere"}
               -> "referred_elsewhere"
          [] OTHER -> NULL

\* coerce_priority_smallint: the first digits, else the word scale, else None.
CoercePrioritySmallint(raw) ==
    CASE Strip(raw) = "0" -> 0
      [] Strip(raw) = "2 - Medium" -> 2
      [] Lower(Strip(raw)) = "low" -> 1
      [] Lower(Strip(raw)) \in {"medium", "med"} -> 2
      [] Lower(Strip(raw)) = "high" -> 3
      [] Lower(Strip(raw)) = "urgent" -> 4
      [] Lower(Strip(raw)) = "critical" -> 5
      [] OTHER -> NoNum

\* One CSV row.  RecordID is the cell under "Record ID" / "record_id" /
\* "Airtable Record ID"; source_record_id the cell under that header, which
\* only main's get_field call reads.  v picks the other cells.
ReqRaw(case, rid, alt, target, status, v) ==
    [CaseNumber |-> case, RecordID |-> rid, source_record_id |-> alt,
     MergedIntoRecordID |-> target, CaseStatus |-> status,
     Address |-> CASE v = "full" -> "12 Elm St." [] v = "geo" -> "12 elm st" [] OTHER -> "",
     PlaceName |-> "",
     FirstName |-> IF v = "none" THEN "" ELSE "ann",
     LastName |-> IF v = "full" THEN "bob" ELSE "",
     Email |-> IF v = "full" THEN "A@X.org" ELSE "",
     Phone |-> CASE v = "full" -> "555-010-0100" [] v = "geo" -> "1 (555) 010-0100" [] OTHER -> "",
     Priority |-> CASE v = "full" -> "High" [] v = "geo" -> "0" [] OTHER -> "",
     InternalNotes |-> IF v = "full" THEN "call back" ELSE "",
     CaseInfo |-> IF v = "geo" THEN "3 cats" ELSE "",
     Latitude |-> IF v = "geo" THEN "38.5" ELSE "",
     Longitude |-> IF v = "geo" THEN "-122.8" ELSE ""]

\* The rows a CSV export of the model may hold.
ReqRows ==
    { ReqRaw("C1", "recA", "", "", "In Progress", "full"),
      ReqRaw("C1", "recA", "", "recB", "In Progress", "none"),
      ReqRaw("C2", "recB", "", "", "New", "geo"),
      ReqRaw("C2", "", "recB", "", "Bogus", "none"),
      ReqRaw("", "recB", "", "", "New", "none"),
      ReqRaw("C1", "recA", "", "recZ", "", "none"),
      ReqRaw("", "", "", "", "", "none") }

ReqIsBlankRow(row) == \A k \in DOMAIN row : Strip(row[k]) = ""

\* get_field over the columns the model gives a field, first non-blank.
GetField(cells) ==
    IF cells = <<>> THEN ""
    ELSE IF Strip(cells[1]) # "" THEN Strip(cells[1])
    ELSE IF Len(cells) > 1 /\ Strip(cells[2]) # "" THEN Strip(cells[2])
    ELSE ""

\* build_rid_to_case_number_map: Record ID -> Case Number over the whole
\* file, a later row replacing an earlier one with the same record id.
RECURSIVE BuildRidToCaseNumberMap(_)
BuildRidToCaseNumberMap(file) ==
    IF file = <<>> THEN <<>>
    ELSE LET row == file[Len(file)]
             rest == BuildRidToCaseNumberMap(SubSeq(file, 1, Len(file) - 1))
             rid == GetField(<<row.RecordID>>)
             case_num == GetField(<<row.CaseNumber>>)
         IN  IF rid # "" /\ case_num # ""
             THEN [k \in (DOMAIN rest) \cup {rid} |->
                     IF k = rid THEN case_num ELSE rest[k]]
             ELSE rest

\* A lookup that answers the record id it was asked about.
LookupAnswersRecordId(requests, source_record_id) == {source_record_id}

\* lookup_case_number_by_source_record_id: the case numbers the SELECT ...
\* LIMIT 1 may return (any matching row: the query has no ORDER BY).
LookupCaseNumberBySourceRecordId(requests, source_record_id) ==
    IF source_record_id = NULL \/ source_record_id = ""
    THEN {NULL}
    ELSE LET hit == {r \in requests : r.source_record_id = source_record_id}
         IN  IF hit = {} THEN {NULL} ELSE {r.case_number : r \in hit}

\* The outcomes of geocode_address: coordinates, no result, or an exception
\* (raise_for_status, a timeout).
GeocodeOutcomes == {"ok", "none", "raise"}

GeocodeAddress(outcome) ==
    IF outcome = "ok"
    THEN [lat |-> "38.4", lng |-> "-122.7", formatted |-> "12 Elm St, Santa Rosa"]
    ELSE [lat |-> NULL, lng |-> NULL, formatted |-> NULL]

\* upsert_address
UpsertAddress(T, raw_addr, lat, lng, formatted) ==
    LET address_key == <<"addr", NormalizeText(raw_addr)>>
        hit == {r \in T : r.address_key = address_key}
        new == [address_key |-> address_key, raw_address |-> raw_addr,
                formatted_address |-> formatted, latitude |-> lat,
                longitude |-> lng,
                geom |-> IF lat # NULL /\ lng # NULL THEN <<lng, lat>> ELSE <<>>]
        upd(old) == [old EXCEPT
                       !.raw_address = raw_addr,
                       !.formatted_address = Coalesce(formatted, old.formatted_address, NULL),
                       !.latitude = Coalesce(lat, old.latitude, NULL),
                       !.longitude = Coalesce(lng, old.longitude, NULL)]
    IN  IF raw_addr = "" THEN [tbl |-> T, id |-> NoId, inserted |-> FALSE]
        ELSE IF hit = {}
        THEN [tbl |-> T \cup {new}, id |-> address_key, inserted |-> TRUE]
        ELSE [tbl |-> (T \ hit) \cup {upd(old) : old \in hit},
              id |-> address_key, inserted |-> FALSE]

\* upsert_place
UpsertPlace(T, address_id, place_name, raw_addr) ==
    LET base_key == IF raw_addr # "" THEN NormalizeText(raw_addr) ELSE "unknown"
        place_key == <<"place", IF place_name # "" THEN NormalizeText(place_name) ELSE "", base_key>>
        hit == {r \in T : r.place_key = place_key}
        display_name == IF place_name # "" THEN place_name ELSE raw_addr
        new == [place_key |-> place_key, display_name |-> display_name,
                address_id |-> address_id]
        upd(old) == [old EXCEPT
                       !.display_name = display_name,
                       !.address_id = Coalesce(address_id, old.address_id, NoId)]
    IN  IF raw_addr = "" /\ place_name = ""
        THEN [tbl |-> T, id |-> NoId, inserted |-> FALSE]
        ELSE IF hit = {}
        THEN [tbl |-> T \cup {new}, id |-> place_key, inserted |-> TRUE]
        ELSE [tbl |-> (T \ hit) \cup {upd(old) : old \in hit},
              id |-> place_key, inserted |-> FALSE]

\* The database function normalize_phone the INSERT calls for phone_normalized.
DbNormalizePhone(phone_raw) == NormalizePhone(phone_raw)

\* upsert_person
UpsertPerson(T, first, last, email, phone) ==
    LET email_n == Lower(Strip(email))
        phone_n == ReqNormalizePhone(phone)
        phone_raw == Strip(phone)
        name_n == <<NormalizeText(first), NormalizeText(last)>>
        person_key == IF email_n # "" THEN <<"email", email_n>>
                      ELSE IF phone_n # "" THEN <<"phone", phone_n>>
                      ELSE <<"name">> \o name_n
        hit == {r \in T : r.person_key = person_key}
        new == [person_key |-> person_key, first_name |-> OrNone(first),
                last_name |-> OrNone(last), email |-> OrNone(email_n),
                phone |-> OrNone(phone_n),
                phone_normalized |-> IF phone_raw # "" THEN DbNormalizePhone(phone_raw) ELSE NULL]
        upd(old) == [old EXCEPT
                       !.first_name = Coalesce(new.first_name, old.first_name, NULL),
                       !.last_name = Coalesce(new.last_name, old.last_name, NULL),
                       !.email = Coalesce(new.email, old.email, NULL),
                       !.phone = Coalesce(new.phone, old.phone, NULL),
                       !.phone_normalized = Coalesce(new.phone_normalized, old.phone_normalized, NULL)]
    IN  IF email_n = "" /\ phone_n = "" /\ name_n = <<"", "">>
        THEN [tbl |-> T, id |-> NoId, inserted |-> FALSE]
        ELSE IF hit = {}
        THEN [tbl |-> T \cup {new}, id |-> person_key, inserted |-> TRUE]
        ELSE [tbl |-> (T \ hit) \cup {upd(old) : old \in hit},
              id |-> person_key, inserted |-> FALSE]

\* The values upsert_request binds: its parameters after `or None`.
RequestExcluded(case_number, source_record_id, primary_place_id, primary_person_id, status, priority, priority_label, notes, archive_reason, merged_into_case_number, merged_into_source_record_id) ==
    [case_number |-> case_number,
     source_record_id |-> OrNone(source_record_id),
     primary_place_id |-> primary_place_id,
     primary_contact_person_id |-> primary_person_id,
     status |-> status,
     priority |-> IF priority = 0 THEN NoNum ELSE priority,
     priority_label |-> priority_label,
     notes |-> OrNone(notes),
     archive_reason |-> archive_reason,
     merged_into_case_number |-> merged_into_case_number,
     merged_into_source_record_id |-> merged_into_source_record_id,
     archived_at |-> IF archive_reason # NULL THEN "ts" ELSE NULL]

\* A DO UPDATE SET that keeps the stored status and archive_reason.
RequestConflictUpdateKeepsStatus(old, ex) ==
    [old EXCEPT
       !.source_record_id = Coalesce(ex.source_record_id, old.source_record_id, NULL),
       !.merged_into_case_number =
           Coalesce(ex.merged_into_case_number, old.merged_into_case_number, NULL),
       !.merged_into_source_record_id =
           Coalesce(ex.merged_into_source_record_id, old.merged_into_source_record_id, NULL)]

\* ON CONFLICT (case_number) DO UPDATE SET ... of upsert_request.
RequestConflictUpdate(old, ex) ==
    [old EXCEPT
       !.source_record_id = Coalesce(ex.source_record_id, old.source_record_id, NULL),
       !.primary_place_id = Coalesce(ex.primary_place_id, old.primary_place_id, NoId),
       !.primary_contact_person_id =
           Coalesce(ex.primary_contact_person_id, old.primary_contact_person_id, NoId),
       !.status = Coalesce(ex.status, old.status, NULL),
       !.priority = Coalesce(ex.priority, old.priority, NoNum),
       !.priority_label = Coalesce(ex.priority_label, old.priority_label, NULL),
       !.notes = Coalesce(ex.notes, old.notes, NULL),
       !.archive_reason = Coalesce(ex.archive_reason, old.archive_reason, NULL),
       !.merged_into_case_number =
           Coalesce(ex.merged_into_case_number, old.merged_into_case_number, NULL),
       !.merged_into_source_record_id =
           Coalesce(ex.merged_into_source_record_id, old.merged_into_source_record_id, NULL),
       !.archived_at =
           Coalesce(old.archived_at,
                    IF ex.archive_reason # NULL THEN "ts" ELSE NULL, NULL)]

\* upsert_request: the table after the call, the row's id and inserted.
UpsertRequest(T, ex) ==
    LET hit == {r \in T : r.case_number = ex.case_number}
    IN  IF hit = {}
        THEN [tbl |-> T \cup {ex}, id |-> ex.case_number, inserted |-> TRUE]
        ELSE [tbl |-> (T \ hit) \cup {RequestConflictUpdate(old, ex) : old \in hit},
              id |-> ex.case_number, inserted |-> FALSE]

\* upsert_request_party: INSERT ... ON CONFLICT DO NOTHING.
UpsertRequestParty(T, request_id, person_id, role) ==
    LET new == [request_id |-> request_id, person_id |-> person_id, role |-> role]
    IN  IF person_id = NoId \/ new \in T
        THEN [tbl |-> T, inserted |-> FALSE]
        ELSE [tbl |-> T \cup {new}, inserted |-> TRUE]

\* upsert_request_note: keyed by note_key, the body replaced on conflict.
UpsertRequestNote(T, request_id, case_number, note_kind, note_body) ==
    LET note_key == <<"airtable_trapping_requests", case_number, note_kind>>
        hit == {r \in T : r.note_key = note_key}
        new == [request_id |-> request_id, note_kind |-> note_kind,
                note_body |-> Strip(note_body), note_key |-> note_key,
                source_system |-> "airtable"]
    IN  IF Strip(note_body) = ""
        THEN [tbl |-> T, inserted |-> FALSE, updated |-> FALSE]
        ELSE IF hit = {}
        THEN [tbl |-> T \cup {new}, inserted |-> TRUE, updated |-> FALSE]
        ELSE [tbl |-> (T \ hit) \cup {[old EXCEPT !.note_body = Strip(note_body)] : old \in hit},
              inserted |-> FALSE, updated |-> TRUE]

ReqTables0 ==
    [addresses |-> {}, places |-> {}, people |-> {}, requests |-> {},
     request_parties |-> {}, request_notes |-> {}]

ReqCounters0 ==
    [addresses_inserted |-> 0, places_inserted |-> 0, people_inserted |-> 0,
     requests_inserted |-> 0, requests_updated |-> 0,
     request_parties_inserted |-> 0, notes_inserted |-> 0, notes_updated |-> 0,
     skipped_blank_rows |-> 0, skipped_missing_case_number |-> 0,
     skipped_dupe_case_in_file |-> 0, merged_links_set |-> 0,
     merged_case_resolved |-> 0, merged_case_unresolved |-> 0]

ReqIdle ==
    [phase |-> "idle", file |-> <<>>, pos |-> 1, geocode_enabled |-> FALSE,
     rid_to_case_number |-> <<>>, seen_case_numbers |-> {},
     counters |-> ReqCounters0, tx |-> ReqTables0,
     last |-> [kind |-> "none"], rerun |-> FALSE, first |-> ReqTables0,
     prior |-> "none"]

\* The merge-target resolution of main (lines 625-659): the status, the
\* archive reason and the merge fields of a row, db_case being what the
\* database lookup answers.
ResolveMerge(row, rid_to_case_number, db_case) ==
    LET raw_status == GetField(<<row.CaseStatus>>)
        merged_target_rid == GetField(<<row.MergedIntoRecordID>>)
        has_target == merged_target_rid # ""
        in_file == has_target /\ merged_target_rid \in DOMAIN rid_to_case_number
        merged_into_case_number ==
            IF ~has_target THEN NULL
            ELSE IF in_file THEN rid_to_case_number[merged_target_rid]
            ELSE db_case
        archive_reason == IF has_target THEN "duplicate"
                          ELSE CoerceArchiveReason(raw_status)
        status0 == IF has_target THEN "closed" ELSE CoerceRequestStatus(raw_status)
        status == IF archive_reason # NULL /\ status0 = NULL
                  THEN IF archive_reason \in {"duplicate", "denied"} THEN "closed"
                       ELSE IF archive_reason = "referred_elsewhere" THEN "resolved"
                       ELSE status0
                  ELSE status0
    IN  [status |-> status, archive_reason |-> archive_reason,
         merged_into_source_record_id |-> IF has_target THEN merged_target_rid ELSE NULL,
         merged_into_case_number |-> merged_into_case_number,
         resolved_from |-> IF ~has_target THEN "no_target"
                           ELSE IF in_file THEN "file"
                           ELSE IF db_case # NULL THEN "db" ELSE "unresolved"]

\* One iteration of main's loop for a row that has a new case number: the
\* run after it, db_case being the database lookup's answer and outcome the
\* geocoder's.
ReqUpsertRow(run, row, db_case, outcome) ==
    LET case_number == GetField(<<row.CaseNumber>>)
        source_record_id == GetField(<<row.RecordID, row.source_record_id>>)
        raw_addr == GetField(<<row.Address>>)
        place_name == GetField(<<row.PlaceName>>)
        first == GetField(<<row.FirstName>>)
        last == GetField(<<row.LastName>>)
        email == GetField(<<row.Email>>)
        phone == GetField(<<row.Phone>>)
        m == ResolveMerge(row, run.rid_to_case_number, db_case)
        raw_priority == GetField(<<row.Priority>>)
        notes == GetField(<<row.InternalNotes>>)
        case_info_text == GetField(<<row.CaseInfo>>)
        internal_notes_text == GetField(<<row.InternalNotes>>)
        lat0 == ParseFloat(GetField(<<row.Latitude>>))
        lng0 == ParseFloat(GetField(<<row.Longitude>>))
        geocoded == raw_addr # "" /\ (lat0 = NULL \/ lng0 = NULL) /\ run.geocode_enabled
        g == GeocodeAddress(outcome)
        lat == IF geocoded /\ lat0 = NULL THEN g.lat ELSE lat0
        lng == IF geocoded /\ lng0 = NULL THEN g.lng ELSE lng0
        formatted == IF geocoded THEN g.formatted ELSE NULL
        a == UpsertAddress(run.tx.addresses, raw_addr, lat, lng, formatted)
        pl == UpsertPlace(run.tx.places, a.id, place_name, raw_addr)
        pe == UpsertPerson(run.tx.people, first, last, email, phone)
        ex == RequestExcluded(case_number, source_record_id, pl.id, pe.id,
                              m.status, CoercePrioritySmallint(raw_priority),
                              OrNone(raw_priority), notes, m.archive_reason,
                              m.merged_into_case_number,
                              m.merged_into_source_record_id)
        hit == {r \in run.tx.requests : r.case_number = case_number}
        rq == UpsertRequest(run.tx.requests, ex)
        pa == UpsertRequestParty(run.tx.request_parties, rq.id, pe.id, "reporter")
        n1 == UpsertRequestNote(run.tx.request_notes, rq.id, case_number,
                                "case_info", case_info_text)
        n2 == UpsertRequestNote(n1.tbl, rq.id, case_number,
                                "internal", internal_notes_text)
        c == run.counters
        notes_ins == (IF n1.inserted THEN 1 ELSE 0) + (IF n2.inserted THEN 1 ELSE 0)
        notes_upd == (IF n1.updated THEN 1 ELSE 0) + (IF n2.updated THEN 1 ELSE 0)
    IN  IF geocoded /\ outcome = "raise"
        THEN [run EXCEPT !.phase = "failed",
                         !.last = [kind |-> "raise", pos |-> run.pos, geo |-> outcome]]
        ELSE [run EXCEPT
                !.pos = @ + 1,
                !.seen_case_numbers = @ \cup {case_number},
                !.tx = [addresses |-> a.tbl, places |-> pl.tbl, people |-> pe.tbl,
                        requests |-> rq.tbl, request_parties |-> pa.tbl,
                        request_notes |-> n2.tbl],
                !.counters = [c EXCEPT
                    !.addresses_inserted = IF a.inserted THEN @ + 1 ELSE @,
                    !.places_inserted = IF pl.inserted THEN @ + 1 ELSE @,
                    !.people_inserted = IF pe.inserted THEN @ + 1 ELSE @,
                    !.requests_inserted = IF rq.inserted THEN @ + 1 ELSE @,
                    !.requests_updated = IF rq.inserted THEN @ ELSE @ + 1,
                    !.request_parties_inserted = IF pa.inserted THEN @ + 1 ELSE @,
                    !.notes_inserted = @ + notes_ins,
                    !.notes_updated = @ + notes_upd,
                    !.merged_links_set =
                        IF m.resolved_from # "no_target" THEN @ + 1 ELSE @,
                    !.merged_case_resolved =
                        IF m.resolved_from \in {"file", "db"} THEN @ + 1 ELSE @,
                    !.merged_case_unresolved =
                        IF m.resolved_from = "unresolved" THEN @ + 1 ELSE @],
                !.last = [kind |-> "upsert", pos |-> run.pos, inserted |-> rq.inserted,
                          resolved_from |-> m.resolved_from, ex |-> ex,
                          old |-> IF hit = {} THEN ex ELSE CHOOSE r \in hit : TRUE,
                          new |-> CHOOSE r \in rq.tbl : r.case_number = case_number,
                          unresolved_before |-> c.merged_case_unresolved,
                          geo |-> IF geocoded THEN outcome ELSE "not_called",
                          lat |-> lat, lng |-> lng]]

\* What the database lookup of a row may answer: it is made only for a merge
\* target the pre-scan map does not hold.
DbCases(run, row) ==
    LET target == GetField(<<row.MergedIntoRecordID>>)
    IN  IF target # "" /\ target \notin DOMAIN run.rid_to_case_number
        THEN LookupCaseNumberBySourceRecordId(run.tx.requests, target)
        ELSE {NULL}

\* The files a run may be given: a new file of the rows left of the model's
\* budget, or once more the file of the run that has just committed.
ReqFiles ==
    UNION {[1..n -> ReqRows] : n \in 1..(MaxReqRows - rowsDone)}
        \cup (IF reqRun.phase = "done" /\ ~reqRun.rerun THEN {reqRun.file} ELSE {})

\* Whether main would call the geocoder for some row of the file, were
\* geocoding enabled (otherwise the --geocode flag changes nothing).
CallsGeocoder(file) ==
    \E i \in 1..Len(file) :
        /\ GetField(<<file[i].Address>>) # ""
        /\ \/ ParseFloat(GetField(<<file[i].Latitude>>)) = NULL
           \/ ParseFloat(GetField(<<file[i].Longitude>>)) = NULL

\* main, up to the loop: the pre-scan of the whole file, then the connection.
ReqStartOn(files) ==
    /\ script = "trapping_requests"
    /\ NoRunActive
    /\ nextRunId <= MaxReqRuns
    /\ \E file \in files :
         \E geocode \in (IF CallsGeocoder(file) THEN BOOLEAN ELSE {FALSE}) :
            LET rerun == reqRun.phase = "done" /\ file = reqRun.file
                            /\ geocode = reqRun.geocode_enabled
            IN  reqRun' = [phase |-> "rows", file |-> file, pos |-> 1,
                           geocode_enabled |-> geocode,
                           rid_to_case_number |-> BuildRidToCaseNumberMap(file),
                           seen_case_numbers |-> {}, counters |-> ReqCounters0,
                           tx |-> reqdb, last |-> [kind |-> "none"],
                           rerun |-> rerun,
                           first |-> IF rerun THEN reqdb ELSE ReqTables0,
                           prior |-> IF rerun THEN "committed" ELSE "none"]
    /\ nextRunId' = nextRunId + 1
    /\ UNCHANGED <<script, schema, appts, ingest_runs, apptRun, areqs, arRun, reqdb, rowsDone, people, links, matchdb, matchRun, keyCall, pair, fnCall>>

ReqStart == ReqStartOn(ReqFiles)

\* Exports in which cases name each other as merge targets: C1 and C2 each
\* the duplicate of the other, C1 the duplicate of itself, C3 the duplicate
\* of C2.
MergeRows ==
    { ReqRaw("C1", "recA", "", "recB", "In Progress", "none"),
      ReqRaw("C2", "recB", "", "recA", "", "none"),
      ReqRaw("C2", "recB", "", "", "New", "none"),
      ReqRaw("C1", "recA", "", "recA", "", "none"),
      ReqRaw("C3", "recC", "", "recB", "", "none") }

MergeFiles == UNION {[1..n -> MergeRows] : n \in 1..(MaxReqRows - rowsDone)}

\* The skip rules with the one on a repeated case number left out.
SkipReasonFirstTwo(row, seen_case_numbers) ==
    IF ReqIsBlankRow(row) THEN "blank"
    ELSE IF GetField(<<row.CaseNumber>>) = "" THEN "no_case_number"
    ELSE "none"

\* The three skip rules at the head of main's loop (lines 594-607), in
\* their order: which one passes the row over, if any.
SkipReason(row, seen_case_numbers) ==
    IF ReqIsBlankRow(row) THEN "blank"
    ELSE IF GetField(<<row.CaseNumber>>) = "" THEN "no_case_number"
    ELSE IF GetField(<<row.CaseNumber>>) \in seen_case_numbers THEN "dupe_case_in_file"
    ELSE "none"

\* One iteration of main's loop over the rows.
ReqRow ==
    /\ reqRun.phase = "rows"
    /\ reqRun.pos <= Len(reqRun.file)
    /\ rowsDone' = IF reqRun.rerun THEN rowsDone ELSE rowsDone + 1
    /\ LET row == reqRun.file[reqRun.pos]
           skip == SkipReason(row, reqRun.seen_case_numbers)
       IN  IF skip = "blank"
           THEN reqRun' = [reqRun EXCEPT !.pos = @ + 1,
                             !.counters.skipped_blank_rows = @ + 1,
                             !.last = [kind |-> "blank"]]
           ELSE IF skip = "no_case_number"
           THEN reqRun' = [reqRun EXCEPT !.pos = @ + 1,
                             !.counters.skipped_missing_case_number = @ + 1,
                             !.last = [kind |-> "no_case_number"]]
           ELSE IF skip = "dupe_case_in_file"
           THEN reqRun' = [reqRun EXCEPT !.pos = @ + 1,
                             !.counters.skipped_dupe_case_in_file = @ + 1,
                             !.last = [kind |-> "dupe_case_in_file"]]
           ELSE \E db_case \in DbCases(reqRun, row), outcome \in GeocodeOutcomes :
                    reqRun' = ReqUpsertRow(reqRun, row, db_case, outcome)
    /\ UNCHANGED <<script, schema, appts, ingest_runs, apptRun, areqs, arRun, reqdb, nextRunId, people, links, matchdb, matchRun, keyCall, pair, fnCall>>

\* main, after the loop: conn.commit().
ReqFinish ==
    /\ reqRun.phase = "rows"
    /\ reqRun.pos > Len(reqRun.file)
    /\ reqRun' = [reqRun EXCEPT !.phase = "done"]
    /\ reqdb' = reqRun.tx
    /\ UNCHANGED <<script, schema, appts, ingest_runs, apptRun, areqs, arRun, nextRunId, rowsDone, people, links, matchdb, matchRun, keyCall, pair, fnCall>>

NextReq ==
    \/ ReqStart
    \/ ReqRow
    \/ ReqFinish

\* The same script given the exports of MergeFiles.
NextReqMerge ==
    \/ ReqStartOn(MergeFiles)
    \/ ReqRow
    \/ ReqFinish

\* The script is killed inside the loop of main: conn.commit() (line 733) is
\* not reached and the server rolls the open transaction back.
ReqInterrupt ==
    /\ reqRun.phase = "rows"
    /\ reqRun' = [reqRun EXCEPT !.phase = "interrupted", !.tx = reqdb]
    /\ UNCHANGED <<script, schema, appts, ingest_runs, apptRun, areqs, arRun, reqdb, nextRunId, rowsDone, people, links, matchdb, matchRun, keyCall, pair, fnCall>>

\* main run once more on the file of the run that was killed.
ReqReexecute ==
    /\ script = "trapping_requests"
    /\ reqRun.phase = "interrupted"
    /\ nextRunId <= MaxReqRuns
    /\ reqRun' = [phase |-> "rows", file |-> reqRun.file, pos |-> 1,
                  geocode_enabled |-> reqRun.geocode_enabled,
                  rid_to_case_number |-> BuildRidToCaseNumberMap(reqRun.file),
                  seen_case_numbers |-> {}, counters |-> ReqCounters0,
                  tx |-> reqdb, last |-> [kind |-> "none"],
                  rerun |-> TRUE, first |-> reqdb, prior |-> "interrupted"]
    /\ nextRunId' = nextRunId + 1
    /\ UNCHANGED <<script, schema, appts, ingest_runs, apptRun, areqs, arRun, reqdb, rowsDone, people, links, matchdb, matchRun, keyCall, pair, fnCall>>

----------------------------------------------------------------------------
(* generate_people_match_candidates.py                                     *)
(*                                                                         *)
(* Names, e-mails and normalized phones are sequences of one-character     *)
(* strings, because the script looks inside them (lower, strip, length,    *)
(* prefix, edit distance).  None of such a field is NoneStr; the raw phone *)
(* and the address are only copied, and stay texts (None is NULL).         *)
(* A float is the exact fraction [n, d] it approximates; confidences are   *)
(* counted in thousandths, so 0.95 is 950 and round(x, 3) is an integer.   *)

NoneStr == <<NULL>>

\* Truth value of an Optional[str]: None and "" are false.
Truthy(s) == s # NoneStr /\ s # <<>>

IsSpace(c) == c = " "

\* str.lower, one character at a time.
LowerChar(c) ==
    CASE c = "A" -> "a"
      [] c = "B" -> "b"
      [] c = "X" -> "x"
      [] OTHER -> c

LowerStr(s) == [i \in 1..Len(s) |-> LowerChar(s[i])]

\* Each character of s with a flag telling whether the predicate holds of a
\* character before it (prev), at it or before (upto), at it or after (from).
Flagged(s, P(_)) ==
    [i \in 1..Len(s) |->
        [c |-> s[i],
         prev |-> i > 1 /\ P(s[i - 1]),
         upto |-> \E j \in 1..i : P(s[j]),
         from |-> \E j \in i..Len(s) : P(s[j])]]

Chars(fs) == [i \in 1..Len(fs) |-> fs[i].c]

\* str.strip: the characters from the first to the last that is no space.
StripStr(s) ==
    Chars(SelectSeq(Flagged(s, LAMBDA c : ~IsSpace(c)), LAMBDA f : f.upto /\ f.from))

\* re.sub(r"\s+", " ", s): every run of whitespace becomes one space.
CollapseWs(s) ==
    Chars(SelectSeq(Flagged(s, IsSpace), LAMBDA f : ~(IsSpace(f.c) /\ f.prev)))

\* normalize_name: "" for an empty name, else lowered, stripped, collapsed.
NormalizeName(name) ==
    IF name = <<>> THEN <<>> ELSE CollapseWs(StripStr(LowerStr(name)))

\* The minimum without the substitution cell.
Min3NoSubstitution(a, b, c) == IF a <= b THEN a ELSE b

Min3(a, b, c) ==
    IF a <= b /\ a <= c THEN a ELSE IF b <= c THEN b ELSE c

\* The inner loop of levenshtein_distance for the characters lo..hi of s2:
\* current_row grows by one cell for each of them, left to right.  The
\* range is walked in halves, the row of the first half being a value
\* before the second is walked; the cells are those of the loop, in its
\* order.
RECURSIVE LevCurrentRow(_, _, _, _, _, _)
LevCurrentRow(c1, s2, previous_row, current_row, lo, hi) ==
    IF lo > hi THEN current_row
    ELSE IF lo = hi
    THEN LET j == lo
             insertions == previous_row[j + 1] + 1
             deletions == current_row[j] + 1
             substitutions == previous_row[j] + (IF c1 # s2[j] THEN 1 ELSE 0)
         IN  Append(current_row, Min3(insertions, deletions, substitutions))
    ELSE LET mid == (lo + hi) \div 2
         IN  CHOOSE row \in
                 { LevCurrentRow(c1, s2, previous_row, left, mid + 1, hi) :
                     left \in {LevCurrentRow(c1, s2, previous_row, current_row, lo, mid)} } :
                 TRUE

\* The outer loop for the characters lo..hi of s1: each turns previous_row
\* into the row of that character, which starts with its position.
RECURSIVE LevRows(_, _, _, _, _)
LevRows(s1, s2, previous_row, lo, hi) ==
    IF lo > hi THEN previous_row
    ELSE IF lo = hi
    THEN LevCurrentRow(s1[lo], s2, previous_row, <<lo>>, 1, Len(s2))
    ELSE LET mid == (lo + hi) \div 2
         IN  CHOOSE row \in
                 { LevRows(s1, s2, upper, mid + 1, hi) :
                     upper \in {LevRows(s1, s2, previous_row, lo, mid)} } :
                 TRUE

\* levenshtein_distance: the longer string first, two-row dynamic program.
RECURSIVE LevenshteinDistance(_, _)
LevenshteinDistance(s1, s2) ==
    IF Len(s1) < Len(s2) THEN LevenshteinDistance(s2, s1)
    ELSE IF Len(s2) = 0 THEN Len(s1)
    ELSE LevRows(s1, s2, [k \in 1..(Len(s2) + 1) |-> k - 1], 1, Len(s1))[Len(s2) + 1]

\* Fractions: value n/d with d > 0.
Frac(n, d) == [n |-> n, d |-> d]

FracGeq(a, b) == a.n * b.d >= b.n * a.d

FracSum(a, b) == Frac(a.n * b.d + b.n * a.d, a.d * b.d)

\* max(a, b) of Python on two floats.
FracMax(a, b) == IF FracGeq(a, b) THEN a ELSE b

\* s * k alone, the constant left out.
FracLinear(c, k, s) == Frac(k * s.n, s.d)

\* c + s * k for a fraction s and integers c, k.
FracAffine(c, k, s) == Frac(c * s.d + k * s.n, s.d)

\* round(x, 3) of x given in thousandths: the nearest integer, a tie going to
\* the even one.
Round3(q) ==
    LET f == q.n \div q.d
        twice == 2 * (q.n % q.d)
    IN  IF twice < q.d THEN f
        ELSE IF twice > q.d THEN f + 1
        ELSE IF f % 2 = 0 THEN f ELSE f + 1

\* name_similarity: 1 - distance / max_len on the normalized names, 0 when
\* one of them is empty.
SimilarityOfNormalized(n1, n2) ==
    LET max_len == IF Len(n1) >= Len(n2) THEN Len(n1) ELSE Len(n2)
    IN  IF n1 = <<>> \/ n2 = <<>> THEN Frac(0, 1)
        ELSE FracMax(Frac(0, 1),
                     Frac(max_len - LevenshteinDistance(n1, n2), max_len))

NameSimilarity(name1, name2) ==
    SimilarityOfNormalized(NormalizeName(name1), NormalizeName(name2))

\* s[:3]
Prefix3(s) == SubSeq(s, 1, 3)

\* The tier expression of calculate_match, on a confidence in thousandths.
TierOfFrac(confidence) ==
    IF FracGeq(confidence, Frac(950, 1)) THEN 0
    ELSE IF FracGeq(confidence, Frac(800, 1)) THEN 1
    ELSE IF FracGeq(confidence, Frac(500, 1)) THEN 2
    ELSE 3

\* calculate_match once name_sim is computed: the candidate of one source
\* record and one canonical person, as a sequence of none or one
\* (Optional[MatchCandidate]).  The tier is taken from the confidence before
\* it is rounded.
MatchGivenSimilarity(source, person, name_sim) ==
    LET phone_hit ==
            /\ Truthy(source.phone_normalized) /\ Truthy(person.phone_normalized)
            /\ source.phone_normalized = person.phone_normalized
            /\ Len(source.phone_normalized) >= 10
        email_hit ==
            /\ Truthy(source.email) /\ Truthy(person.email)
            /\ StripStr(LowerStr(source.email)) = StripStr(LowerStr(person.email))
        name_hit == FracGeq(name_sim, Frac(7, 10))
        area_hit ==
            /\ Truthy(source.phone_normalized) /\ Truthy(person.phone_normalized)
            /\ Len(source.phone_normalized) >= 3 /\ Len(person.phone_normalized) >= 3
            /\ Prefix3(source.phone_normalized) = Prefix3(person.phone_normalized)
        matched_on ==
            (IF phone_hit THEN <<"phone_normalized">> ELSE <<>>)
            \o (IF email_hit THEN <<"email">> ELSE <<>>)
            \o (IF name_hit THEN <<"name_fuzzy">> ELSE <<>>)
            \o (IF name_hit /\ area_hit THEN <<"area_code">> ELSE <<>>)
        c0 == Frac(0, 1)
        c1 == IF phone_hit THEN FracMax(c0, Frac(1000, 1)) ELSE c0
        c2 == IF email_hit THEN FracMax(c1, Frac(980, 1)) ELSE c1
        confidence ==
            IF ~name_hit THEN c2
            ELSE IF area_hit THEN FracMax(c2, FracAffine(850, 100, name_sim))
            ELSE FracMax(c2, FracAffine(500, 300, name_sim))
        evidence ==
            [matched_on |-> matched_on,
             phone_match |-> phone_hit,
             email_match |-> email_hit,
             name_similarity |-> Round3(Frac(1000 * name_sim.n, name_sim.d)),
             tier |-> TierOfFrac(confidence),
             source_name |-> source.display_name,
             source_email |-> source.email,
             source_phone |-> source.phone]
    IN  IF matched_on = <<>> \/ ~FracGeq(confidence, Frac(400, 1)) THEN <<>>
        ELSE << [source_system |-> source.source_system,
                 source_record_id |-> source.source_record_id,
                 candidate_person_id |-> person.person_id,
                 confidence |-> Round3(confidence),
                 evidence |-> evidence] >>

\* calculate_match
CalculateMatch(source, person) ==
    MatchGivenSimilarity(source, person,
                         NameSimilarity(source.display_name, person.display_name))

MAX_CANDIDATES_PER_SOURCE == 5

MIN_NAME_LENGTH == 2

\* list.sort(key=confidence, reverse=True): stable, so candidates of equal
\* confidence keep the order they were appended in.
RECURSIVE InsertByConfidence(_, _)
InsertByConfidence(sorted, c) ==
    IF sorted = <<>> THEN <<c>>
    ELSE IF Head(sorted).confidence >= c.confidence
         THEN <<Head(sorted)>> \o InsertByConfidence(Tail(sorted), c)
         ELSE <<c>> \o sorted

AppendOrder(cs) == cs

RECURSIVE SortByConfidenceDesc(_)
SortByConfidenceDesc(cs) ==
    IF cs = <<>> THEN <<>>
    ELSE InsertByConfidence(SortByConfidenceDesc(SubSeq(cs, 1, Len(cs) - 1)),
                            cs[Len(cs)])

\* The loop of generate_candidates_for_source over the people, in order.
RECURSIVE AllMatches(_, _)
AllMatches(source, canonical_people) ==
    IF canonical_people = <<>> THEN <<>>
    ELSE CalculateMatch(source, Head(canonical_people))
         \o AllMatches(source, Tail(canonical_people))

\* candidates[:max_candidates]
Truncate(cs, n) == SubSeq(cs, 1, IF Len(cs) < n THEN Len(cs) ELSE n)

\* generate_candidates_for_source
GenerateCandidatesForSource(source, canonical_people, max_candidates) ==
    Truncate(SortByConfidenceDesc(AllMatches(source, canonical_people)),
             max_candidates)

\* A string of n copies of the character c.
Rep(c, n) == [i \in 1..n |-> c]

\* Rows of trapper.people, in the order the database returns them: the
\* columns load_canonical_people selects, and the address of the person,
\* which it does not select.
Person(id, name, email, phone, pn, addr) ==
    [person_id |-> id, display_name |-> name, email |-> email, phone |-> phone,
     phone_normalized |-> pn, address |-> addr]

\* load_canonical_people: a CanonicalPerson for each row.
LoadCanonicalPeople(rows) ==
    [i \in 1..Len(rows) |->
        [person_id |-> rows[i].person_id, display_name |-> rows[i].display_name,
         email |-> rows[i].email, phone |-> rows[i].phone,
         phone_normalized |-> rows[i].phone_normalized]]

PeopleTables ==
    LET anna == <<"a", "n", "n", "a">>
        anne == <<"a", "n", "n", "e">>
        bob == <<"b", "o", "b">>
        ax == <<"a", "@", "x">>
        bx == <<"b", "@", "x">>
        p100 == <<"5", "5", "5", "0", "1", "0", "0", "1", "0", "0">>
        p199 == <<"5", "5", "5", "0", "1", "0", "0", "1", "9", "9">>
        p707 == <<"7", "0", "7", "5", "5", "5", "0", "1", "0", "0">>
    IN  { << Person("p1", anna, ax, "555-010-0100", p100, "12 Elm St."),
             Person("p2", anne, NoneStr, "555-010-0199", p199, "9 Oak Ave."),
             Person("p3", bob, ax, "707-555-0100", p707, NULL) >>,
          << Person("p1", anne, NoneStr, NULL, NoneStr, "12 Elm St."),
             Person("p2", anna, NoneStr, "555-010-0100", p100, NULL),
             Person("p3", anne, NoneStr, "707-555-0100", p707, "12 Elm St."),
             Person("p4", bob, NoneStr, NULL, NoneStr, "12 Elm St."),
             Person("p5", anna, ax, NULL, NoneStr, NULL),
             Person("p6", anna, NoneStr, "555-010-0199", p199, "9 Oak Ave."),
             Person("p7", anne, bx, "555-010-0199", p199, "12 Elm St."),
             Person("p8", anne, bx, "707-555-0100", p707, NULL) >> }

\* Rows load_unlinked_sources reads for one source system, before the
\* NOT EXISTS filter on person_source_link: clinichq_hist_owners grouped into
\* owners, or appointment_requests.  These tables belong to other programs;
\* what they hold at the time of a run is an input of the run.
Source(sys, id, name, email, phone, pn, addr) ==
    [source_system |-> sys, source_record_id |-> id, display_name |-> name,
     email |-> email, phone |-> phone, phone_normalized |-> pn,
     address_display |-> addr]

SourceTables(sys) ==
    LET annaSp == <<"A", "n", "n", "a", " ">>
        anne == <<"a", "n", "n", "e">>
        axUp == <<" ", "A", "@", "X">>
        p100 == <<"5", "5", "5", "0", "1", "0", "0", "1", "0", "0">>
        p199 == <<"5", "5", "5", "0", "1", "0", "0", "1", "9", "9">>
        p7 == <<"5", "5", "5", "0", "1", "0", "0">>
    IN  { << Source(sys, "s1", annaSp, axUp, "555-010-0100", p100, "12 Elm St."),
             Source(sys, "s2", annaSp, NoneStr, "555-010-0199", p199, NULL) >>,
          << Source(sys, "s1", anne, NoneStr, NULL, NoneStr, "12 Elm St.") >>,
          << Source(sys, "s3", <<"a">>, axUp, NULL, NoneStr, NULL),
             Source(sys, "s2", anne, <<>>, "555-0100", p7, NULL) >> }

\* Arguments of generate_candidates_for_source taken on its own: a source
\* record of any name, e-mail and phone below, and a list of people that may
\* hold one of a long name.  The long names differ in their last character.
GenSources ==
    LET names == { <<"A", "n", "n", "a", " ">>, <<"a", "n", "n", "e">>,
                   <<"b", "o", "b">>, <<>>,
                   [Rep("a", LongName) EXCEPT ![LongName] = "b"] }
        emails == { <<" ", "A", "@", "X">>, <<"b", "@", "x">>, <<>>, NoneStr }
        phones == { <<"555-010-0100", <<"5", "5", "5", "0", "1", "0", "0", "1", "0", "0">> >>,
                    <<"707-555-0100", <<"7", "0", "7", "5", "5", "5", "0", "1", "0", "0">> >>,
                    <<"555-0100", <<"5", "5", "5", "0", "1", "0", "0">> >>,
                    <<NULL, NoneStr>> }
    IN  { Source("clinichq", "s1", n, e, ph[1], ph[2], "12 Elm St.") :
            n \in names, e \in emails, ph \in phones }

GenPeople ==
    PeopleTables \cup
    { << Person("p9", Rep("a", LongName), <<>>, "555-0100",
                <<"5", "5", "5", "0", "1", "0", "0">>, NULL) >> }

\* The NOT EXISTS filter of load_unlinked_sources.
Unlinked(rows, source_links, sys) ==
    SelectSeq(rows, LAMBDA r:
        ~\E l \in source_links : l.source_system = sys /\ l.source_pk = r.source_record_id)

Triple(r) == <<r.source_system, r.source_record_id, r.candidate_person_id>>

GreatestTakesNew(old, new) == new

\* LEAST in place of GREATEST.
Least(old, new) == IF old <= new THEN old ELSE new

StatusAccepted == "accepted"

\* The status in the VALUES list of the INSERT.
InsertStatus == "open"

\* GREATEST(person_match_candidates.confidence, EXCLUDED.confidence)
Greatest(old, new) == IF old >= new THEN old ELSE new

\* One execution of the INSERT ... ON CONFLICT statement of upsert_candidates
\* on the table as the transaction sees it; the log keeps every execution.
UpsertCandidate(db, c) ==
    LET hit == {r \in db.candidates : Triple(r) = Triple(c)}
        entry == [source_system |-> c.source_system,
                  source_record_id |-> c.source_record_id,
                  candidate_person_id |-> c.candidate_person_id,
                  n |-> Cardinality({w \in db.log : Triple(w) = Triple(c)}) + 1,
                  confidence |-> c.confidence, evidence |-> c.evidence]
    IN  [db |-> [db EXCEPT
                   !.candidates =
                       IF hit = {}
                       THEN @ \cup {[source_system |-> c.source_system,
                                     source_record_id |-> c.source_record_id,
                                     candidate_person_id |-> c.candidate_person_id,
                                     confidence |-> c.confidence,
                                     evidence |-> c.evidence,
                                     status |-> InsertStatus]}
                       ELSE (@ \ hit) \cup
                            {[r EXCEPT !.confidence = Greatest(r.confidence, c.confidence),
                                       !.evidence = c.evidence] : r \in hit},
                   !.log = @ \cup {entry}],
         inserted |-> hit = {}]

\* The loop of upsert_candidates from candidate i on.  The execute of
\* candidate fail_at raises (0: none does); the transaction is then aborted,
\* and every later execute raises as well.
RECURSIVE UpsertLoop(_, _, _, _, _)
UpsertLoop(acc, candidates, i, fail_at, failed) ==
    IF i > Len(candidates) THEN [acc EXCEPT !.aborted = failed]
    ELSE IF failed \/ i = fail_at
         THEN UpsertLoop([acc EXCEPT !.skipped = @ + 1], candidates, i + 1, fail_at, TRUE)
         ELSE LET u == UpsertCandidate(acc.db, candidates[i])
              IN  UpsertLoop([acc EXCEPT !.db = u.db,
                                         !.inserted = @ + (IF u.inserted THEN 1 ELSE 0),
                                         !.skipped = @ + (IF u.inserted THEN 0 ELSE 1)],
                             candidates, i + 1, fail_at, FALSE)

\* upsert_candidates: (inserted, skipped) and the transaction's tables.
UpsertCandidates(db, candidates, dry_run, fail_at) ==
    IF dry_run
    THEN [db |-> db, inserted |-> Len(candidates), skipped |-> 0, aborted |-> FALSE]
    ELSE UpsertLoop([db |-> db, inserted |-> 0, skipped |-> 0, aborted |-> FALSE],
                    candidates, 1, fail_at, FALSE)

\* The loop of main over the loaded sources: names shorter than
\* MIN_NAME_LENGTH are passed over, the candidates of the others collected.
RECURSIVE CollectCandidates(_, _)
CollectCandidates(sources, canonical_people) ==
    IF sources = <<>> THEN [all_candidates |-> <<>>, sources_processed |-> 0]
    ELSE LET source == Head(sources)
         IN  CHOOSE col \in
                 { IF Len(source.display_name) < MIN_NAME_LENGTH THEN rest
                   ELSE [all_candidates |->
                             GenerateCandidatesForSource(source, canonical_people,
                                                         MAX_CANDIDATES_PER_SOURCE)
                             \o rest.all_candidates,
                         sources_processed |-> rest.sources_processed + 1] :
                     rest \in {CollectCandidates(Tail(sources), canonical_people)} } :
                 TRUE

\* The tier counters of main, which read the rounded confidence; a candidate
\* below 0.50 is counted nowhere.
StatsTier(c) ==
    IF c.confidence >= 950 THEN 0
    ELSE IF c.confidence >= 800 THEN 1
    ELSE IF c.confidence >= 500 THEN 2
    ELSE 3

TierCount(cs, tier) == Cardinality({i \in 1..Len(cs) : StatsTier(cs[i]) = tier})

MatchTables0 == [candidates |-> {}, log |-> {}]

MatchIdle ==
    [phase |-> "idle", dry_run |-> FALSE, todo |-> <<>>, canonical_people |-> <<>>,
     last |-> [kind |-> "none"]]

\* The choices of --source.
SourceArgs == {"clinichq", "jotform", "all"}

\* --source: one system, or both in turn.
SourcesToProcess(arg) ==
    IF arg = "all" THEN <<"clinichq", "jotform">> ELSE <<arg>>

\* main up to the loop over the source systems: the arguments are read and
\* the canonical people loaded.
MatchStart ==
    /\ script = "match_candidates"
    /\ matchRun.phase # "open"
    /\ nextRunId <= MaxMatchRuns
    /\ \E arg \in SourceArgs, dry \in BOOLEAN :
         matchRun' = [phase |-> "open", dry_run |-> dry,
                      todo |-> SourcesToProcess(arg),
                      canonical_people |-> LoadCanonicalPeople(people),
                      last |-> [kind |-> "none"]]
    /\ nextRunId' = nextRunId + 1
    /\ UNCHANGED <<script, schema, appts, ingest_runs, apptRun, areqs, arRun, reqdb,
                   reqRun, rowsDone, people, links, matchdb, keyCall, pair, fnCall>>

\* One turn of the loop of main: the unlinked sources of the system are
\* loaded, their candidates collected and upserted, and the transaction
\* committed unless the run is dry.  A commit of an aborted transaction
\* rolls it back.  After the last system the connection is closed.
MatchProcess ==
    /\ script = "match_candidates"
    /\ matchRun.phase = "open"
    /\ \E sys \in {Head(matchRun.todo)} :
       \E table \in SourceTables(sys) :
       \E sources \in {Unlinked(table, links, sys)} :
       \E col \in {CollectCandidates(sources, matchRun.canonical_people)} :
       \E fail_at \in 0..(IF matchRun.dry_run THEN 0
                          ELSE IF Len(col.all_candidates) < MaxFailAt
                          THEN Len(col.all_candidates) ELSE MaxFailAt) :
       \E u \in {UpsertCandidates(matchdb, col.all_candidates, matchRun.dry_run, fail_at)} :
       \E committed \in {~matchRun.dry_run /\ ~u.aborted} :
         /\ matchdb' = IF committed THEN u.db ELSE matchdb
         /\ matchRun' =
              [matchRun EXCEPT
                 !.todo = Tail(@),
                 !.phase = IF Tail(matchRun.todo) = <<>> THEN "done" ELSE "open",
                 !.last = [kind |-> "processed", source_system |-> sys,
                           sources |-> sources,
                           all_candidates |-> col.all_candidates,
                           sources_processed |-> col.sources_processed,
                           candidates_generated |-> Len(col.all_candidates),
                           tier0_count |-> TierCount(col.all_candidates, 0),
                           tier1_count |-> TierCount(col.all_candidates, 1),
                           tier2_count |-> TierCount(col.all_candidates, 2),
                           candidates_inserted |-> u.inserted,
                           candidates_skipped |-> u.skipped,
                           fail_at |-> fail_at,
                           committed |-> committed,
                           before |-> matchdb]]
    /\ UNCHANGED <<script, schema, appts, ingest_runs, apptRun, areqs, arRun, reqdb,
                   reqRun, nextRunId, rowsDone, people, links, keyCall, pair, fnCall>>

NextMatch == MatchStart \/ MatchProcess

\* The script is killed between two source systems: what the turns before
\* committed (line 446) stays, the systems left are not processed.
MatchInterrupt ==
    /\ script = "match_candidates"
    /\ matchRun.phase = "open"
    /\ matchRun' = [matchRun EXCEPT !.phase = "interrupted"]
    /\ UNCHANGED <<script, schema, appts, ingest_runs, apptRun, areqs, arRun, reqdb,
                   reqRun, nextRunId, rowsDone, people, links, matchdb, keyCall, pair, fnCall>>

\* generate_candidates_for_source called on the source and the people the
\* behaviour started with: the candidates list before the sort, and the
\* list returned.
GenerateCall ==
    /\ script = "generate_candidates"
    /\ matchRun.phase = "call"
    /\ \E candidates \in {AllMatches(matchRun.source, LoadCanonicalPeople(people))} :
         matchRun' = [matchRun EXCEPT
                        !.phase = "returned",
                        !.candidates = candidates,
                        !.result = Truncate(SortByConfidenceDesc(candidates),
                                            MAX_CANDIDATES_PER_SOURCE)]
    /\ UNCHANGED <<script, schema, appts, ingest_runs, apptRun, areqs, arRun, reqdb,
                   reqRun, nextRunId, rowsDone, people, links, matchdb, keyCall, pair, fnCall>>

GenCalls ==
    { [phase |-> "call", source |-> s, candidates |-> <<>>, result |-> <<>>] :
        s \in GenSources }

NextGen == GenerateCall

----------------------------------------------------------------------------
(* compute_source_pk and compute_row_hash of the two ingest scripts, each  *)
(* called on two rows.                                                     *)

\* The rows of an XLSX file given to the two functions: the rows of the runs,
\* a negative appointment number, a row that differs from a row of the runs
\* in the untracked columns only, and two rows with "|" in a name.
KeyApptRows ==
    ApptRows \cup
    { ApptRaw("01/01/2025", "-5", "ann", "ann", NULL),
      ApptRaw("2025-01-02", "", "ann", "bob", "555-010-0199"),
      [ApptRaw("01/01/2025", "7", "ann", "bob", NULL) EXCEPT !.OwnerEmail = "ann"],
      [ApptRaw("01/01/2025", "7", "ann", "ann", NULL)
          EXCEPT !.OwnerFirstName = "a|b", !.OwnerLastName = "c"],
      [ApptRaw("01/01/2025", "7", "ann", "ann", NULL)
          EXCEPT !.OwnerFirstName = "a", !.OwnerLastName = "b|c"] }

\* The rows of a CSV file given to the two functions: the rows of the runs,
\* a row that differs from a row of the runs in notes and status only, and
\* two rows with "|" in the notes or the status.
KeyArRows ==
    ArRows \cup
    { [ArRaw("", "01/01/2025", "ann", "555-010-0100", "bob", "", "")
          EXCEPT !.Notes = "called back", !.SubmissionStatus = "Scheduled"],
      [ArRaw("recA", "01/01/2025", "ann", "555-010-0100", "ann", "3", "01/02/2025")
          EXCEPT !.Notes = "x|y", !.SubmissionStatus = "z"],
      [ArRaw("recA", "01/01/2025", "ann", "555-010-0100", "ann", "3", "01/02/2025")
          EXCEPT !.Notes = "x", !.SubmissionStatus = "y|z"] }

KeyIdle == [phase |-> "idle"]

\* The pairs of rows a behaviour may start with.
KeyCalls ==
    { [phase |-> "call", table |-> "appointments", rows |-> <<a, b>>] :
        a \in KeyApptRows, b \in KeyApptRows }
    \cup
    { [phase |-> "call", table |-> "appointment_requests", rows |-> <<a, b>>] :
        a \in KeyArRows, b \in KeyArRows }

\* upsert_appointment up to its skip test, on each of the two rows: the
\* normalized dict, compute_source_pk and compute_row_hash of it.
ApptKeysCall ==
    /\ script = "row_keys"
    /\ keyCall.phase = "call"
    /\ keyCall.table = "appointments"
    /\ keyCall' = [phase |-> "returned", table |-> keyCall.table,
                   rows |-> keyCall.rows,
                   normalized |-> [i \in 1..2 |-> ApptFields(keyCall.rows[i])],
                   source_pk |-> [i \in 1..2 |-> ApptSourcePk(ApptFields(keyCall.rows[i]))],
                   row_hash |-> [i \in 1..2 |-> ApptRowHash(ApptFields(keyCall.rows[i]))]]
    /\ UNCHANGED <<script, schema, appts, ingest_runs, apptRun, areqs, arRun, reqdb, reqRun, nextRunId, rowsDone, people, links, matchdb, matchRun, pair, fnCall>>

\* upsert_appointment_request up to its statement, on each of the two rows:
\* compute_source_pk and compute_row_hash of the CSV row.
ArKeysCall ==
    /\ script = "row_keys"
    /\ keyCall.phase = "call"
    /\ keyCall.table = "appointment_requests"
    /\ keyCall' = [phase |-> "returned", table |-> keyCall.table,
                   rows |-> keyCall.rows,
                   normalized |-> keyCall.rows,
                   source_pk |-> [i \in 1..2 |-> ArSourcePk(keyCall.rows[i])],
                   row_hash |-> [i \in 1..2 |-> ArRowHash(keyCall.rows[i])]]
    /\ UNCHANGED <<script, schema, appts, ingest_runs, apptRun, areqs, arRun, reqdb, reqRun, nextRunId, rowsDone, people, links, matchdb, matchRun, pair, fnCall>>

NextKeys == ApptKeysCall \/ ArKeysCall

----------------------------------------------------------------------------
(* Two runs of ingest_clinichq_upcoming_appointments.py on one database.   *)
(* Each run is one transaction (psycopg.connect on line 451, the one       *)
(* conn.commit() on line 522), so its statements meet the other run's as   *)
(* PostgreSQL lets them: a row a transaction has written stays locked      *)
(* until it commits or rolls back, an INSERT ... ON CONFLICT or an UPDATE  *)
(* that needs such a row waits, and on waking works on the committed row;  *)
(* a statement sees the rows committed when it starts and its own writes.  *)

\* The file name both runs are given: it carries the window they share.
PairFile == "appts_2025-01-01_2025-01-02.xlsx"

\* The rows the two files are made of, two records inside the window: one
\* keyed by its appointment number, one by the digest of its identity.
PairRows ==
    { ApptRaw("01/01/2025", "7", "ann", "ann", "555-010-0100"),
      ApptRaw("01/02/2025", "0", " Ann", "bob", NULL) }

\* The files a run may read.
PairFiles ==
    UNION {[1..n -> PairRows] : n \in 1..MaxRows}

\* The table before the two runs: empty, or left by an earlier run that saw
\* one of the rows and a third record the two files do not hold.
PairStores ==
    { {},
      UpsertAppointment(
          UpsertAppointment({}, ApptRaw("01/01/2025", "7", "ann", "ann", NULL),
                            "appts.xlsx", 3, TRUE).tbl,
          ApptRaw("01/02/2025", "9", "cy", "cy", NULL),
          "appts.xlsx", 3, TRUE).tbl }

\* main up to the loop, for the run with run id r reading file f.
PairRun0(r, f) ==
    [run_id |-> r, source_file |-> PairFile, file |-> f, i |-> 0, pc |-> "rows",
     coverage_start |-> ParseCoverageWindowFromFilename(PairFile)[1],
     coverage_end |-> ParseCoverageWindowFromFilename(PairFile)[2],
     counters |-> ApptCounters0, own |-> {}, snap |-> {}, seen |-> {}]

PairIdle == [phase |-> "idle"]

\* The two runs at their start, let loose at once or one after the other.
Pairs ==
    { [phase |-> "running", serial |-> s,
       runs |-> <<PairRun0(1, f), PairRun0(2, g)>>,
       lastBy |-> 0, alternated |-> TRUE, waited |-> FALSE] :
      s \in BOOLEAN, f \in PairFiles, g \in PairFiles }

\* Run r's transaction holds a written, uncommitted version of the row k.
Holds(run, k) == \E x \in run.own : x.source_pk = k

\* The other run holds the row k, so that a statement needing it waits.
LockedByOther(r, k) == Holds(pair.runs[3 - r], k)

\* What a statement of run r reads: the committed rows and its own writes.
View(r) ==
    {x \in appts : ~Holds(pair.runs[r], x.source_pk)} \cup pair.runs[r].own

\* The rows of the snapshot the UPDATE of mark_stale_in_window picks.
StaleTargets(r) ==
    {x \in pair.runs[r].snap :
        StaleCandidate(x, pair.runs[r].run_id, pair.runs[r].coverage_start,
                       pair.runs[r].coverage_end)}

\* Run r is at a statement that waits for the other run's transaction.
Blocked(r) ==
    LET run == pair.runs[r] IN
    \/ /\ run.pc = "rows"
       /\ run.i < Len(run.file)
       /\ ParseDate(run.file[run.i + 1].Date) # NoDate
       /\ LockedByOther(r, ApptExcluded(run.file[run.i + 1], PairFile).source_pk)
    \/ /\ run.pc = "marking"
       /\ \E x \in StaleTargets(r) : LockedByOther(r, x.source_pk)

\* Run r has started when the job runner lets it: at once, or (one run at a
\* time) after the first run has ended.
Started(r) ==
    /\ pair.phase = "running"
    /\ ~pair.serial \/ r = 1 \/ pair.runs[1].pc \in {"done", "aborted"}

\* Run r can take its next step now.
CanStep(r) ==
    /\ Started(r)
    /\ pair.runs[r].pc \notin {"done", "aborted"}
    /\ ~Blocked(r)

\* Every statement is committed as it ends (a connection in autocommit).
CommitsEveryStatement(step) == TRUE

\* The steps of main after which the run's writes are committed: the
\* connection of line 451 is not in autocommit, so conn.commit() alone.
Commits(step) == step = "commit"

\* The table once the writes of run are committed.
Committed(run) ==
    {x \in appts : ~Holds(run, x.source_pk)} \cup run.own

\* Run r has taken a step that leaves it as run.  The pair keeps the history
\* of whose steps alternated and of whether a run was made to wait.
PairStep(r, run, step) ==
    /\ pair' = [pair EXCEPT
                  !.runs[r] = IF Commits(step) THEN [run EXCEPT !.own = {}] ELSE run,
                  !.lastBy = r,
                  !.alternated = @ /\ (pair.lastBy # r \/ ~CanStep(3 - r)),
                  !.waited = @ \/ Blocked(3 - r)]
    /\ appts' = IF Commits(step) THEN Committed(run) ELSE appts

\* One iteration of main's loop in run r (lines 467-490).
PairRow(r) ==
    /\ script = "appointments_pair"
    /\ CanStep(r)
    /\ pair.runs[r].pc = "rows"
    /\ pair.runs[r].i < Len(pair.runs[r].file)
    /\ LET run == pair.runs[r]
           row == run.file[run.i + 1]
           k == ApptExcluded(row, PairFile).source_pk
           res == UpsertAppointment(View(r), row, PairFile, run.run_id, TRUE)
           wrote == res.inserted \/ res.updated
           c == run.counters
       IN  PairStep(r, [run EXCEPT
                     !.i = @ + 1,
                     !.own = IF wrote
                             THEN {x \in @ : x.source_pk # k} \cup
                                  {x \in res.tbl : x.source_pk = k}
                             ELSE @,
                     !.seen = IF wrote THEN @ \cup {k} ELSE @,
                     !.counters = [c EXCEPT
                         !.rows_processed = @ + 1,
                         !.rows_inserted = IF res.inserted THEN @ + 1 ELSE @,
                         !.rows_updated = IF ~res.inserted /\ res.updated THEN @ + 1 ELSE @]],
                     "upsert")
    /\ UNCHANGED <<script, schema, ingest_runs, apptRun, areqs, arRun, reqdb, reqRun, nextRunId, rowsDone, people, links, matchdb, matchRun, keyCall, fnCall>>

\* The UPDATE of mark_stale_in_window starts in run r: it reads the rows
\* committed by now and the run's own.
PairMarkBegin(r) ==
    /\ script = "appointments_pair"
    /\ CanStep(r)
    /\ pair.runs[r].pc = "rows"
    /\ pair.runs[r].i = Len(pair.runs[r].file)
    /\ PairStep(r, [pair.runs[r] EXCEPT !.pc = "marking", !.snap = View(r)], "read")
    /\ UNCHANGED <<script, schema, ingest_runs, apptRun, areqs, arRun, reqdb, reqRun, nextRunId, rowsDone, people, links, matchdb, matchRun, keyCall, fnCall>>

\* The UPDATE ends in run r: every row it picked is free, and the WHERE
\* clause is applied to the row as it is committed now.
PairMarkEnd(r) ==
    /\ script = "appointments_pair"
    /\ CanStep(r)
    /\ pair.runs[r].pc = "marking"
    /\ LET run == pair.runs[r]
           keys == {x.source_pk : x \in StaleTargets(r)}
           latest == {y \in View(r) : y.source_pk \in keys}
           m == MarkStaleInWindow(latest, run.run_id, run.coverage_start,
                                  run.coverage_end)
       IN  PairStep(r, [run EXCEPT
                     !.pc = "commit",
                     !.own = (@ \ latest) \cup
                             {z \in m.tbl : z \in run.own \/ z \notin latest},
                     !.counters.rows_staled = m.staled],
                     "update")
    /\ UNCHANGED <<script, schema, ingest_runs, apptRun, areqs, arRun, reqdb, reqRun, nextRunId, rowsDone, people, links, matchdb, matchRun, keyCall, fnCall>>

\* log_ingest_run and conn.commit() of run r (lines 508-522).
PairCommit(r) ==
    /\ script = "appointments_pair"
    /\ CanStep(r)
    /\ pair.runs[r].pc = "commit"
    /\ ingest_runs' = ingest_runs \cup
          {IngestRunRow(pair.runs[r], pair.runs[r].coverage_start,
                        pair.runs[r].coverage_end, pair.runs[r].counters)}
    /\ PairStep(r, [pair.runs[r] EXCEPT !.pc = "done"], "commit")
    /\ UNCHANGED <<script, schema, apptRun, areqs, arRun, reqdb, reqRun, nextRunId, rowsDone, people, links, matchdb, matchRun, keyCall, fnCall>>

\* Each run waits for a row the other holds: the server ends one of the two
\* transactions with an error, the exception leaves main and the connection
\* rolls back.
PairDeadlock(r) ==
    /\ script = "appointments_pair"
    /\ pair.phase = "running"
    /\ Blocked(1)
    /\ Blocked(2)
    /\ pair' = [pair EXCEPT !.runs[r] = [@ EXCEPT !.pc = "aborted", !.own = {}],
                            !.lastBy = r]
    /\ UNCHANGED <<script, schema, appts, ingest_runs, apptRun, areqs, arRun, reqdb, reqRun, nextRunId, rowsDone, people, links, matchdb, matchRun, keyCall, fnCall>>

NextPair ==
    \E r \in 1..2 :
        \/ PairRow(r)
        \/ PairMarkBegin(r)
        \/ PairMarkEnd(r)
        \/ PairCommit(r)
        \/ PairDeadlock(r)

----------------------------------------------------------------------------
(* Functions of the scripts called on arguments of their own               *)

FnIdle == [phase |-> "idle"]

\* Case Status cells: blank ones, the texts of the mapping of
\* coerce_request_status, canonical status names in several spellings, and
\* texts the mapping does not list.
StatusTexts ==
    { "", " ", "New", "new", "requested", "needs attention", "need to re-book",
      "need to re book", "In Progress", "in  progress", "partially complete",
      "revisit", "complete/closed", "complete / closed", "complete", "closed",
      "hold", "referred elsewhere", "duplicate request", "duplicate", "denied",
      "Scheduled", "active", "paused", "resolved", "needs review", "in-progress",
      "new!", "Bogus", "Dup", "referred", "on hold", "not closed" }

\* A Case Status cell, and the status stored for the row's case.
StatusCalls ==
    { [phase |-> "call", fn |-> "status", raw |-> t, stored |-> st] :
      t \in StatusTexts, st \in RequestStatuses \cup {NULL} }

\* The status of a row without a merge target, from the cell to the stored
\* row: coerce_request_status, the fallback of main (lines 654-659) and the
\* ON CONFLICT update of upsert_request on the case's stored row.
StatusCall ==
    /\ fnCall.phase = "call"
    /\ fnCall.fn = "status"
    /\ LET row == ReqRaw("C1", "recA", "", "", fnCall.raw, "none")
           m == ResolveMerge(row, <<>>, NULL)
           old == RequestExcluded("C1", "recA", NoId, NoId, fnCall.stored, NoNum,
                                  NULL, "", NULL, NULL, NULL)
           ex == RequestExcluded("C1", "recA", NoId, NoId, m.status, NoNum,
                                 NULL, "", m.archive_reason, NULL, NULL)
       IN  fnCall' = [phase |-> "returned", fn |-> "status", raw |-> fnCall.raw,
                      stored |-> fnCall.stored,
                      coerced |-> CoerceRequestStatus(GetField(<<row.CaseStatus>>)),
                      incoming |-> ex.status,
                      after |-> UpsertRequest({old}, ex).tbl]
    /\ UNCHANGED <<script, schema, appts, ingest_runs, apptRun, areqs, arRun, reqdb, reqRun, nextRunId, rowsDone, people, links, matchdb, matchRun, keyCall, pair>>

NextStatus == StatusCall

\* The characters of the short names: a letter, a capital and the space.
NameChars == {"a", "B", " "}

\* Names with a run of spaces inside, and names that differ from short ones
\* in case only.
LongerNames ==
    { <<"a", " ", " ", "b">>, <<"A", " ", " ", "B">>, <<" ", "a", "b", " ">>,
      <<"a", " ", "b", " ", " ">>, <<"b", "a">>, <<"A", "b">> }

NameTexts == UNION {[1..n -> NameChars] : n \in 0..MaxNameLen} \cup LongerNames

SimilarityCalls ==
    { [phase |-> "call", fn |-> "similarity", name1 |-> a, name2 |-> b] :
      a \in NameTexts, b \in NameTexts }

\* name_similarity(name1, name2), with the values of its locals n1, n2 and
\* distance, and levenshtein_distance of the two names as they are.
SimilarityCall ==
    /\ fnCall.phase = "call"
    /\ fnCall.fn = "similarity"
    /\ LET n1 == NormalizeName(fnCall.name1)
           n2 == NormalizeName(fnCall.name2)
       IN  fnCall' = [phase |-> "returned", fn |-> "similarity",
                      name1 |-> fnCall.name1, name2 |-> fnCall.name2,
                      n1 |-> n1, n2 |-> n2,
                      distance |-> LevenshteinDistance(n1, n2),
                      raw_distance |-> LevenshteinDistance(fnCall.name1, fnCall.name2),
                      similarity |-> NameSimilarity(fnCall.name1, fnCall.name2),
                      swapped |-> NameSimilarity(fnCall.name2, fnCall.name1)]
    /\ UNCHANGED <<script, schema, appts, ingest_runs, apptRun, areqs, arRun, reqdb, reqRun, nextRunId, rowsDone, people, links, matchdb, matchRun, keyCall, pair>>

NextSimilarity == SimilarityCall

\* Names of ten letters that differ from "aaaaaaaaaa" in none, the last
\* three and the last four (similarity 1, 0.7 and 0.6), two short names one
\* letter apart, and no name.
PairNames ==
    { Rep("a", 10),
      [i \in 1..10 |-> IF i > 7 THEN "b" ELSE "a"],
      [i \in 1..10 |-> IF i > 6 THEN "b" ELSE "a"],
      <<"a", "n", "n", "a">>, <<"a", "n", "n", "e">>, <<>> }

PairEmails == { <<" ", "A", "@", "X">>, <<"a", "@", "x">>, <<"b", "@", "x">>, NoneStr }

\* Normalized phones: of ten digits, of ten with another area code, of
\* seven, and none.
PairPhones ==
    { <<"5", "5", "5", "0", "1", "0", "0", "1", "0", "0">>,
      <<"5", "5", "5", "0", "1", "0", "0", "1", "9", "9">>,
      <<"7", "0", "7", "5", "5", "5", "0", "1", "0", "0">>,
      <<"5", "5", "5", "0", "1", "0", "0">>, NoneStr }

\* A source record and a canonical person for calculate_match.
MatchCalls ==
    { [phase |-> "call", fn |-> "calculate_match",
       source |-> Source("clinichq", "s1", sn, se, NULL, sp, NULL),
       person |-> [person_id |-> "p1", display_name |-> pn, email |-> pe,
                   phone |-> NULL, phone_normalized |-> pp]] :
        sn \in PairNames, se \in {<<" ", "A", "@", "X">>, NoneStr},
        sp \in {<<"5", "5", "5", "0", "1", "0", "0", "1", "0", "0">>,
                <<"5", "5", "5", "0", "1", "0", "0">>, NoneStr},
        pn \in PairNames, pe \in PairEmails, pp \in PairPhones }

\* calculate_match(source, person): none or one candidate.
MatchCall ==
    /\ fnCall.phase = "call"
    /\ fnCall.fn = "calculate_match"
    /\ fnCall' = [phase |-> "returned", fn |-> "calculate_match",
                  source |-> fnCall.source, person |-> fnCall.person,
                  result |-> CalculateMatch(fnCall.source, fnCall.person)]
    /\ UNCHANGED <<script, schema, appts, ingest_runs, apptRun, areqs, arRun, reqdb, reqRun, nextRunId, rowsDone, people, links, matchdb, matchRun, keyCall, pair>>

NextCalculateMatch == MatchCall

----------------------------------------------------------------------------

\* The database before or after migration MIG_263, which adds the three
\* windowed columns and the ingest_runs table together.
Schemas ==
    { [windowed |-> TRUE, ingest_runs |-> TRUE],
      [windowed |-> FALSE, ingest_runs |-> FALSE] }

\* Only the appointments script looks at the schema; the other two are run
\* against the migrated database.
SchemasOf(s) ==
    IF s = "appointments" THEN Schemas
    ELSE {[windowed |-> TRUE, ingest_runs |-> TRUE]}

\* Only the candidate generator reads the people and their source links.
PeopleOf(s) ==
    CASE s = "match_candidates" -> {t \in PeopleTables : Len(t) <= MaxPeople}
      [] s = "generate_candidates" -> GenPeople
      [] OTHER -> {<<>>}

\* The generator's run, or the call of generate_candidates_for_source.
MatchRunsOf(s) == IF s = "generate_candidates" THEN GenCalls ELSE {MatchIdle}

LinkTables ==
    { {}, {[source_system |-> "clinichq", source_pk |-> "s1", person_id |-> "p1"]} }

LinksOf(s) == IF s = "match_candidates" THEN LinkTables ELSE {{}}

KeyCallsOf(s) == IF s = "row_keys" THEN KeyCalls ELSE {KeyIdle}

\* Only the pair of runs starts on a table an earlier run may have filled.
StoresOf(s) == IF s = "appointments_pair" THEN PairStores ELSE {{}}

PairsOf(s) == IF s = "appointments_pair" THEN Pairs ELSE {PairIdle}

FnCallsOf(s) ==
    CASE s = "status_mapping" -> StatusCalls
      [] s = "name_similarity" -> SimilarityCalls
      [] s = "calculate_match" -> MatchCalls
      [] OTHER -> {FnIdle}

Scripts ==
    {"appointments", "appointment_requests", "trapping_requests", "match_candidates",
     "generate_candidates", "row_keys"}

\* The state before the first run of one of the scripts S.
InitOf(S) ==
    /\ script \in S
    /\ schema \in SchemasOf(script)
    /\ appts \in StoresOf(script)
    /\ ingest_runs = {}
    /\ apptRun = ApptIdle
    /\ areqs = {}
    /\ arRun = ArIdle
    /\ reqdb = ReqTables0
    /\ reqRun = ReqIdle
    /\ nextRunId = 1
    /\ rowsDone = 0
    /\ people \in PeopleOf(script)
    /\ links \in LinksOf(script)
    /\ matchdb = MatchTables0
    /\ matchRun \in MatchRunsOf(script)
    /\ keyCall \in KeyCallsOf(script)
    /\ pair \in PairsOf(script)
    /\ fnCall \in FnCallsOf(script)

Init == InitOf(Scripts)

Next == NextAppt \/ NextAr \/ NextReq \/ NextMatch \/ NextGen \/ NextKeys

Spec == Init /\ [][Next]_vars

InitAppt == Init /\ script = "appointments"

SpecAppt == InitAppt /\ [][NextAppt]_vars

InitApptWindow == Init /\ script = "appointments"

SpecApptWindow == InitApptWindow /\ [][NextApptWindow]_vars

InitAr == Init /\ script = "appointment_requests"

SpecAr == InitAr /\ [][NextAr]_vars

InitReq == Init /\ script = "trapping_requests"

SpecReq == InitReq /\ [][NextReq]_vars

InitMatch == Init /\ script = "match_candidates"

SpecMatch == InitMatch /\ [][NextMatch]_vars

InitGen == Init /\ script = "generate_candidates"

SpecGen == InitGen /\ [][NextGen]_vars

\* The three scripts of which a run may be killed and executed again.
InitInterrupt ==
    Init /\ script \in {"appointments", "trapping_requests", "match_candidates"}

NextInterrupt ==
    \/ NextAppt \/ NextReq \/ NextMatch
    \/ ApptInterrupt \/ ReqInterrupt \/ ReqReexecute \/ MatchInterrupt

SpecInterrupt == InitInterrupt /\ [][NextInterrupt]_vars

InitKeys == Init /\ script = "row_keys"

SpecKeys == InitKeys /\ [][NextKeys]_vars

\* The two scripts that upsert one source table keyed by
\* (source_system, source_pk).
InitUpsert == Init /\ script \in {"appointments", "appointment_requests"}

NextUpsert == NextAppt \/ NextAr

SpecUpsert == InitUpsert /\ [][NextUpsert]_vars

\* The two scripts importing a record first without and later with the id
\* its source issued.
InitGainId == InitOf({"appointments", "appointment_requests"})

NextGainId == NextApptGainId \/ NextAr

SpecGainId == InitGainId /\ [][NextGainId]_vars

\* The trapping-requests script on exports whose cases name each other.
InitReqMerge == InitOf({"trapping_requests"})

SpecReqMerge == InitReqMerge /\ [][NextReqMerge]_vars

\* The three scripts that have a dry-run mode.
InitDryRun ==
    InitOf({"appointments", "appointment_requests", "match_candidates"})

NextDryRun == NextAppt \/ NextAr \/ NextMatch

SpecDryRun == InitDryRun /\ [][NextDryRun]_vars

\* The status mapping of the trapping-requests script on one cell.
InitStatus == InitOf({"status_mapping"})

SpecStatus == InitStatus /\ [][NextStatus]_vars

\* name_similarity of the candidate generator on one pair of names.
InitSimilarity == InitOf({"name_similarity"})

SpecSimilarity == InitSimilarity /\ [][NextSimilarity]_vars

\* calculate_match of the candidate generator on one source and one person.
InitCalculateMatch == InitOf({"calculate_match"})

SpecCalculateMatch == InitCalculateMatch /\ [][NextCalculateMatch]_vars

\* Two runs of the upcoming-appointments script sharing one window.
InitPair == InitOf({"appointments_pair"})

SpecPair == InitPair /\ [][NextPair]_vars

----------------------------------------------------------------------------
(* Properties of the upserts (spec sections 4.2 and 8).                     *)

\* The text, number and date columns of an appointment, an appointment
\* request and a trapping request that an upsert binds a value for.
ApptTextColumns ==
    {"client_first_name", "client_last_name", "client_address",
     "client_cell_phone", "client_phone", "client_email", "client_type",
     "animal_name", "ownership_type"}

ArTextColumns ==
    {"airtable_record_id", "submitted_at", "requester_name", "first_name",
     "last_name", "email", "phone", "requester_address", "requester_city",
     "requester_zip", "cats_address", "cats_address_clean", "county",
     "situation_description", "notes", "submission_status", "appointment_date"}

ReqTextColumns ==
    {"source_record_id", "status", "priority_label", "notes", "archive_reason",
     "merged_into_case_number", "merged_into_source_record_id"}

ReqIdColumns == {"primary_place_id", "primary_contact_person_id"}

\* Column k of the row an upsert hit keeps its stored value when the value
\* bound for it is null and the stored one is not.
BlankKept(l, k, null) ==
    (l.ex[k] = null /\ l.old[k] # null) => l.new[k] = l.old[k]

\* Column k of the row an upsert hit takes the value bound for it when that
\* value is not null.
PresentWins(l, k, null) ==
    l.ex[k] # null => l.new[k] = l.ex[k]

\* The last call of upsert_request updated a stored case.
ReqUpdated == reqRun.last.kind = "upsert" /\ ~reqRun.last.inserted

\* C2: an upsert that hits a stored row leaves every column unchanged whose
\* incoming value is blank while its stored value is not, in all three
\* scripts.
BlankNeverOverwrites ==
    /\ apptRun.last.kind = "update" =>
         /\ \A k \in ApptTextColumns : BlankKept(apptRun.last, k, NULL)
         /\ BlankKept(apptRun.last, "appt_number", NoNum)
         /\ BlankKept(apptRun.last, "appt_date", NoDate)
    /\ arRun.last.kind = "update" =>
         /\ \A k \in ArTextColumns : BlankKept(arRun.last, k, NULL)
         /\ BlankKept(arRun.last, "cat_count_estimate", NoNum)
    /\ ReqUpdated =>
         /\ \A k \in ReqTextColumns : BlankKept(reqRun.last, k, NULL)
         /\ \A k \in ReqIdColumns : BlankKept(reqRun.last, k, NoId)
         /\ BlankKept(reqRun.last, "priority", NoNum)

\* An appointment was re-imported with blank names and phones over stored
\* ones, and the stored ones are still there.
BlankOverStoredSeen ==
    /\ apptRun.last.kind = "update"
    /\ apptRun.last.ex.client_first_name = NULL
    /\ apptRun.last.ex.client_cell_phone = NULL
    /\ apptRun.last.old.client_first_name = "ann"
    /\ apptRun.last.new.client_first_name = "ann"
    /\ apptRun.last.new.client_cell_phone = "5550100100"

\* C3: an upsert that hits a stored appointment or appointment request
\* replaces every column whose incoming value is non-blank, client_type and
\* ownership_type, requester address, city and zip, county, cat-count
\* estimate and situation description included.
PresentWinsOnUpdate ==
    /\ apptRun.last.kind = "update" =>
         /\ \A k \in ApptTextColumns : PresentWins(apptRun.last, k, NULL)
         /\ PresentWins(apptRun.last, "appt_number", NoNum)
         /\ PresentWins(apptRun.last, "appt_date", NoDate)
    /\ arRun.last.kind = "update" =>
         /\ \A k \in ArTextColumns : PresentWins(arRun.last, k, NULL)
         /\ PresentWins(arRun.last, "cat_count_estimate", NoNum)

----------------------------------------------------------------------------
(* Properties of the staleness tracker (spec section 4.5).                  *)

\* The appointments run has finished in windowed mode with a coverage window.
WindowedRunDone ==
    /\ apptRun.phase = "done"
    /\ schema.windowed
    /\ apptRun.coverage_start # NoDate
    /\ apptRun.coverage_end # NoDate

InWindow(r) ==
    /\ r.appt_date >= apptRun.coverage_start
    /\ r.appt_date <= apptRun.coverage_end

\* C4: a record that was current when the run began and is stale when it
\* ends had its appt_date inside the run's coverage window (and the run has
\* such a window); a record dated outside the window is never made stale.
StalenessContained ==
    (apptRun.phase = "done" /\ schema.windowed) =>
        \A r0 \in apptRun.tx0 : \A r \in apptRun.tx :
            (r.source_pk = r0.source_pk /\ r0.is_current /\ ~r.is_current) =>
                /\ WindowedRunDone
                /\ InWindow(r0)
                /\ InWindow(r)

\* A run staled a record inside its window and left current a record dated
\* outside it that its input did not contain.
OutsideWindowLeftCurrent ==
    /\ WindowedRunDone
    /\ apptRun.counters.rows_staled > 0
    /\ \E r0 \in apptRun.tx0 : \E r \in apptRun.tx :
          /\ r.source_pk = r0.source_pk
          /\ r0.is_current /\ r.is_current
          /\ r.last_seen_run_id # apptRun.run_id
          /\ ~InWindow(r)

\* C5: when a windowed run has finished, a stored record dated inside the
\* coverage window is current exactly if this run upserted it (its
\* last_seen_run_id is the run's id); and an upsert that hits a stale record
\* makes it current again.
StalenessPostCondition ==
    /\ WindowedRunDone =>
         \A r \in apptRun.tx :
            InWindow(r) => (r.is_current <=> r.last_seen_run_id = apptRun.run_id)
    /\ (schema.windowed /\ apptRun.last.kind = "update"
            /\ ~apptRun.last.old.is_current) =>
         /\ apptRun.last.new.is_current
         /\ apptRun.last.new.last_seen_run_id = apptRun.run_id

\* A finished windowed run holds, inside its window, a record it re-observed
\* that was stale before the run and is current now.
StaleReobservedCurrent ==
    /\ WindowedRunDone
    /\ \E r0 \in apptRun.tx0 : \E r \in apptRun.tx :
          /\ r.source_pk = r0.source_pk
          /\ InWindow(r)
          /\ ~r0.is_current /\ r.is_current
          /\ r.last_seen_run_id = apptRun.run_id

----------------------------------------------------------------------------
(* Properties of the merge-chain resolver (spec section 4.4).               *)

\* The row the last iteration of the trapping-requests loop read.
ReqLastRow == reqRun.file[reqRun.last.pos]

\* The record id main reads from a row, and the row's merge target.
RecordIdOf(row) == GetField(<<row.RecordID, row.source_record_id>>)

MergeTargetOf(row) == GetField(<<row.MergedIntoRecordID>>)

\* The case numbers of the rows of the file whose record id is rid.
CasesInFile(file, rid) ==
    {GetField(<<file[i].CaseNumber>>) :
        i \in {j \in 1..Len(file) :
                  /\ RecordIdOf(file[j]) = rid
                  /\ GetField(<<file[j].CaseNumber>>) # ""}}

\* The case numbers of the stored requests whose record id is rid.
CasesInStore(requests, rid) ==
    {r.case_number : r \in {q \in requests : q.source_record_id = rid}}

\* C1: a second run of the trapping-requests import on the file of the run
\* before it inserts nothing and leaves every table as the first run left it
\* (the geocoder, an outside service, not being called).
IngestionIdempotent ==
    (reqRun.phase = "done" /\ reqRun.rerun /\ ~reqRun.geocode_enabled) =>
        /\ reqRun.tx = reqRun.first
        /\ reqRun.counters.requests_inserted = 0
        /\ reqRun.counters.people_inserted = 0
        /\ reqRun.counters.places_inserted = 0
        /\ reqRun.counters.addresses_inserted = 0

\* C6: right after the upsert of a row that carries a merge target, the
\* stored case has status 'closed' and archive_reason 'duplicate', whatever
\* the row's status text and whether or not the target resolved.
MergePrecedence ==
    (reqRun.last.kind = "upsert" /\ MergeTargetOf(ReqLastRow) # "") =>
        /\ reqRun.last.new.status = "closed"
        /\ reqRun.last.new.archive_reason = "duplicate"

\* A row with status text "In Progress" and a merge target that resolved
\* nowhere was upserted onto a stored case that was in progress.
MergeOverInProgressSeen ==
    /\ ReqUpdated
    /\ MergeTargetOf(ReqLastRow) = "recB"
    /\ GetField(<<ReqLastRow.CaseStatus>>) = "In Progress"
    /\ reqRun.last.resolved_from = "unresolved"
    /\ reqRun.last.old.status = "in_progress"
    /\ reqRun.last.new.status = "closed"

\* C7: every committed case with a merge target (record id or case number)
\* has status 'closed' and archive_reason 'duplicate'.
MergeLinkInvariant ==
    \A r \in reqdb.requests :
        (r.merged_into_source_record_id # NULL \/ r.merged_into_case_number # NULL) =>
            (r.status = "closed" /\ r.archive_reason = "duplicate")

\* C8: a row whose merge target is the record id of a row of the same file
\* (one that has a case number) is stored with that row's case number as
\* merged_into_case_number.
ForwardReferencesResolve ==
    (reqRun.last.kind = "upsert"
        /\ CasesInFile(reqRun.file, MergeTargetOf(ReqLastRow)) # {}) =>
            reqRun.last.new.merged_into_case_number
                \in CasesInFile(reqRun.file, MergeTargetOf(ReqLastRow))

\* C9: after a row whose merge target neither the pre-scan map nor the
\* database resolved, the stored case has the target as
\* merged_into_source_record_id, no merged_into_case_number, status 'closed'
\* and archive_reason 'duplicate', merged_case_unresolved has grown by one
\* and the run goes on.
UnresolvedTargetNotFatal ==
    (reqRun.last.kind = "upsert" /\ reqRun.last.resolved_from = "unresolved") =>
        /\ reqRun.last.new.merged_into_source_record_id = MergeTargetOf(ReqLastRow)
        /\ reqRun.last.new.merged_into_case_number = NULL
        /\ reqRun.last.new.status = "closed"
        /\ reqRun.last.new.archive_reason = "duplicate"
        /\ reqRun.counters.merged_case_unresolved = reqRun.last.unresolved_before + 1
        /\ reqRun.phase \in {"rows", "done"}

\* C10: a case stored with an unresolved merge target, re-imported with the
\* same target while a case with that record id is in the store or in the
\* file, gets that case's number as merged_into_case_number; and a stored
\* merged_into_case_number is never cleared by a later upsert.
DanglingTargetsResolve ==
    (reqRun.phase = "rows" /\ ReqUpdated) =>
        LET l == reqRun.last
            target == MergeTargetOf(ReqLastRow)
            cases == CasesInStore(reqdb.requests, target)
                        \cup CasesInFile(reqRun.file, target)
        IN  /\ ( /\ l.old.merged_into_source_record_id = target
                 /\ l.old.merged_into_case_number = NULL
                 /\ cases # {} ) =>
                    l.new.merged_into_case_number \in cases
            /\ l.old.merged_into_case_number # NULL =>
                    l.new.merged_into_case_number # NULL

----------------------------------------------------------------------------
(* Claims on the candidate table.                                          *)

\* The committed executions of the INSERT statement for the triple of r.
WritesOf(r) == {w \in matchdb.log : Triple(w) = Triple(r)}

MaxOf(S) == CHOOSE x \in S : \A y \in S : y <= x

\* C11: whatever the sequence of upserts of a triple, the stored confidence
\* is the greatest confidence ever written for it and the stored evidence is
\* the evidence of the latest write; every triple written has its one row.
CandidateConfidenceMonotonic ==
    /\ \A r \in matchdb.candidates :
          /\ WritesOf(r) # {}
          /\ r.confidence = MaxOf({w.confidence : w \in WritesOf(r)})
          /\ \A w \in WritesOf(r) :
                w.n = Cardinality(WritesOf(r)) => r.evidence = w.evidence
    /\ \A w \in matchdb.log :
          Cardinality({r \in matchdb.candidates : Triple(r) = Triple(w)}) = 1

\* A triple was written again with a lower confidence, and one with a higher.
LowerAndHigherRewritten ==
    /\ \E r \in matchdb.candidates : \E w \in WritesOf(r) :
          /\ w.n >= 2 /\ w.n = Cardinality(WritesOf(r))
          /\ w.confidence < r.confidence
          /\ r.evidence = w.evidence
    /\ \E r \in matchdb.candidates : \E v, w \in WritesOf(r) :
          /\ w.n = v.n + 1 /\ v.confidence < w.confidence
          /\ r.confidence = w.confidence

\* C17: a step of the generator leaves the canonical people, the links of
\* people to source records and every table of the ingest scripts as they
\* were; in the candidate table it only adds rows, with status 'open', and
\* changes no status.
GeneratorNeverLinks ==
    [][ /\ people' = people
        /\ links' = links
        /\ <<appts, ingest_runs, areqs, reqdb>>' = <<appts, ingest_runs, areqs, reqdb>>
        /\ \A r \in matchdb'.candidates :
              IF \E q \in matchdb.candidates : Triple(q) = Triple(r)
              THEN \E q \in matchdb.candidates :
                      Triple(q) = Triple(r) /\ q.status = r.status
              ELSE r.status = "open"
        /\ \A q \in matchdb.candidates :
              \E r \in matchdb'.candidates : Triple(q) = Triple(r) ]_vars

\* A run has committed candidates while people and links are in the store.
CandidatesCommitted ==
    /\ script = "match_candidates"
    /\ matchRun.last.kind = "processed" /\ matchRun.last.committed
    /\ matchdb.candidates # matchRun.last.before.candidates
    /\ people # <<>> /\ links # {}

----------------------------------------------------------------------------
(* Claims on calculate_match and generate_candidates_for_source.           *)

\* The candidates calculate_match produced in the call that has returned.
Produced ==
    IF script = "generate_candidates" /\ matchRun.phase = "returned"
    THEN {matchRun.candidates[i] : i \in 1..Len(matchRun.candidates)}
    ELSE {}

\* The documented tier of a confidence given in thousandths.
TierOf(confidence) ==
    IF confidence >= 950 THEN 0
    ELSE IF confidence >= 800 THEN 1
    ELSE IF confidence >= 500 THEN 2
    ELSE 3

\* C12: every candidate calculate_match produces has a confidence between 0
\* and 1, and the tier in its evidence is the tier of that confidence: 0
\* from 0.95, 1 from 0.80, 2 from 0.50, else 3.
ConfidenceBoundsAndTier ==
    \A c \in Produced :
        /\ 0 <= c.confidence /\ c.confidence <= 1000
        /\ c.evidence.tier = TierOf(c.confidence)

\* The people given to the call that has returned, and what it was given.
PeopleGiven ==
    IF script = "generate_candidates" /\ matchRun.phase = "returned"
    THEN {people[i] : i \in 1..Len(people)}
    ELSE {}

CandidatesFor(person) ==
    {i \in 1..Len(matchRun.candidates) :
        matchRun.candidates[i].candidate_person_id = person.person_id}

InMatchedOn(c, signal) ==
    \E i \in 1..Len(c.evidence.matched_on) : c.evidence.matched_on[i] = signal

\* Both normalized phones are there, equal, and of ten digits or more.
SamePhone(source, person) ==
    /\ source.phone_normalized \notin {NoneStr, <<>>}
    /\ source.phone_normalized = person.phone_normalized
    /\ Len(source.phone_normalized) >= 10

\* Both e-mails are there and equal but for case and outer whitespace.
SameEmail(source, person) ==
    /\ source.email \notin {NoneStr, <<>>}
    /\ person.email \notin {NoneStr, <<>>}
    /\ StripStr(LowerStr(source.email)) = StripStr(LowerStr(person.email))

\* C13: a person yields at most one candidate; equal normalized phones of
\* ten digits or more give it confidence 1.0 and 'phone_normalized' in the
\* evidence, an equal e-mail 0.98 and 'email', and both together 1.0, the
\* maximum and not the sum, with both signals in the evidence.
TierZeroSignals ==
    \A person \in PeopleGiven :
        /\ Cardinality(CandidatesFor(person)) <= 1
        /\ SamePhone(matchRun.source, person) \/ SameEmail(matchRun.source, person)
             => Cardinality(CandidatesFor(person)) = 1
        /\ \A i \in CandidatesFor(person) :
              LET c == matchRun.candidates[i] IN
              /\ SamePhone(matchRun.source, person)
                   => c.confidence = 1000 /\ InMatchedOn(c, "phone_normalized")
              /\ SameEmail(matchRun.source, person)
                   => /\ InMatchedOn(c, "email")
                      /\ c.confidence =
                           IF SamePhone(matchRun.source, person) THEN 1000 ELSE 980

\* One call met a person by phone and e-mail together, and another person by
\* e-mail alone.
PhoneAndEmailSeen ==
    /\ \E person \in PeopleGiven :
          /\ SamePhone(matchRun.source, person) /\ SameEmail(matchRun.source, person)
          /\ \E i \in CandidatesFor(person) : matchRun.candidates[i].confidence = 1000
    /\ \E person \in PeopleGiven :
          /\ ~SamePhone(matchRun.source, person) /\ SameEmail(matchRun.source, person)
          /\ \E i \in CandidatesFor(person) : matchRun.candidates[i].confidence = 980

PersonOf(c) == CHOOSE person \in PeopleGiven : person.person_id = c.candidate_person_id

\* The candidates of the call that rest on the name alone: neither the phone
\* nor the e-mail matched exactly, and the similarity is 0.70 or more.
FuzzyOnly ==
    {c \in Produced :
        /\ ~c.evidence.phone_match /\ ~c.evidence.email_match
        /\ FracGeq(NameSimilarity(matchRun.source.display_name,
                                   PersonOf(c).display_name), Frac(7, 10))}

\* The first three digits of both normalized phones are there and equal.
SameAreaCode(source, person) ==
    /\ source.phone_normalized # NoneStr /\ person.phone_normalized # NoneStr
    /\ Len(source.phone_normalized) >= 3 /\ Len(person.phone_normalized) >= 3
    /\ SubSeq(source.phone_normalized, 1, 3) = SubSeq(person.phone_normalized, 1, 3)

\* C14: a candidate resting on a name similarity s from 0.70 to 1.0 has
\* confidence 0.85 + 0.10*s and tier 1, within 0.80 to 0.94, when the area
\* codes match, and else confidence 0.50 + 0.30*s and tier 2, within 0.50
\* to 0.79; for every such s, 1.0 included.
FuzzyTierBands ==
    \A c \in FuzzyOnly :
        LET s == NameSimilarity(matchRun.source.display_name, PersonOf(c).display_name)
        IN  IF SameAreaCode(matchRun.source, PersonOf(c))
            THEN /\ c.confidence = Round3(FracAffine(850, 100, s))
                 /\ c.evidence.tier = 1
                 /\ 800 <= c.confidence /\ c.confidence <= 949
            ELSE /\ c.confidence = Round3(FracAffine(500, 300, s))
                 /\ c.evidence.tier = 2
                 /\ 500 <= c.confidence /\ c.confidence <= 799

\* The source record has an address and the person lives at it.
SameAddress(source, person) ==
    source.address_display # NULL /\ source.address_display = person.address

\* C15: a candidate resting on a name similarity of 0.70 or more, whose
\* person has the address of the source record while their phones do not
\* share the first three digits, has confidence 0.85 + 0.10*similarity.
AddressRule ==
    \A c \in FuzzyOnly :
        SameAddress(matchRun.source, PersonOf(c))
        /\ ~SameAreaCode(matchRun.source, PersonOf(c))
        => c.confidence =
             Round3(FracAffine(850, 100,
                 NameSimilarity(matchRun.source.display_name,
                                PersonOf(c).display_name)))

\* The list returned by the call, and the candidates it left out.
Returned ==
    IF script = "generate_candidates" /\ matchRun.phase = "returned"
    THEN matchRun.result
    ELSE <<>>

LeftOut == {c \in Produced : \A i \in 1..Len(Returned) : Returned[i] # c}

\* C16: generate_candidates_for_source returns at most five candidates, all
\* it has when they are five or fewer, in non-increasing order of
\* confidence, each a qualifying candidate of a different person, and no
\* candidate left out has a higher confidence than a returned one.
RankedAndTruncated ==
    /\ Len(Returned) <= MAX_CANDIDATES_PER_SOURCE
    /\ Len(Returned) < MAX_CANDIDATES_PER_SOURCE => LeftOut = {}
    /\ \A i \in 1..Len(Returned) :
          /\ Returned[i] \in Produced
          /\ \A j \in 1..Len(Returned) :
                /\ i < j => Returned[i].confidence >= Returned[j].confidence
                /\ i # j => Returned[i].candidate_person_id # Returned[j].candidate_person_id
          /\ \A c \in LeftOut : c.confidence <= Returned[i].confidence

\* More than five people qualified, in another order than that of their
\* confidence, and one left out ties with the last one returned.
TruncationSeen ==
    /\ Len(Returned) = MAX_CANDIDATES_PER_SOURCE
    /\ \E c \in LeftOut : c.confidence = Returned[Len(Returned)].confidence
    /\ \E i, j \in 1..Len(matchRun.candidates) :
          i < j /\ matchRun.candidates[i].confidence < matchRun.candidates[j].confidence

-----------------------------------------------------------------------------
(* Claims on the upsert result and the identity key                        *)

\* At most one row of T per (source_system, source_pk).
UniquePerKey(T) ==
    \A r, q \in T :
        (r.source_system = q.source_system /\ r.source_pk = q.source_pk) => r = q

\* The committed tables and the tables of the open transactions.
KeysUnique ==
    /\ UniquePerKey(appts) /\ UniquePerKey(apptRun.tx)
    /\ UniquePerKey(areqs) /\ UniquePerKey(arRun.tx)

\* This step is a call of upsert_appointment / upsert_appointment_request.
ApptCalled == apptRun'.counters.rows_processed = apptRun.counters.rows_processed + 1
ArCalled == arRun'.counters.rows_processed = arRun.counters.rows_processed + 1

\* The call reported inserted = true: main counted the row as inserted.
ApptReportedInserted == apptRun'.counters.rows_inserted = apptRun.counters.rows_inserted + 1
ArReportedInserted == arRun'.counters.rows_inserted = arRun.counters.rows_inserted + 1

\* No row with the key of the bound values was in the table before the call.
ApptKeyWasAbsent ==
    ~\E r \in apptRun.tx : /\ r.source_system = apptRun'.last.ex.source_system
                           /\ r.source_pk = apptRun'.last.ex.source_pk
ArKeyWasAbsent ==
    ~\E r \in arRun.tx : /\ r.source_system = arRun'.last.ex.source_system
                         /\ r.source_pk = arRun'.last.ex.source_pk

-----------------------------------------------------------------------------
(* Claims on compute_source_pk and compute_row_hash                        *)

\* The row carries an externally issued id: a non-zero appointment number,
\* an Airtable record id.
ApptHasExternalId(n) == n.appt_number # NoNum /\ n.appt_number # 0
ArHasExternalId(row) == FirstPresent(row.RecordID) # ""

\* The fields of the normalized dict, and the CSV columns, that
\* compute_source_pk reads.
ApptIdentityFields ==
    {"appt_number", "appt_date", "client_first_name", "client_last_name",
     "client_address", "animal_name"}
ArIdentityColumns ==
    {"RecordID", "NewSubmitted", "Email", "Phone", "CatsAddress", "CleanAddress"}

\* C19: compute_source_pk returns the externally issued id when the row has
\* one (the Airtable record id; the appointment number when non-zero) and a
\* digest otherwise, and two rows that differ only in fields outside the
\* identity set get the same source_pk.
StableIdentityIgnoresVolatileFields ==
    keyCall.phase = "returned" =>
      /\ keyCall.table = "appointments" =>
            /\ \A i \in 1..2 :
                  IF ApptHasExternalId(keyCall.normalized[i])
                  THEN keyCall.source_pk[i] =
                         [num |-> keyCall.normalized[i].appt_number, key |-> <<>>]
                  ELSE keyCall.source_pk[i].num = NoNum
            /\ (\A f \in ApptIdentityFields :
                    keyCall.normalized[1][f] = keyCall.normalized[2][f])
                  => keyCall.source_pk[1] = keyCall.source_pk[2]
      /\ keyCall.table = "appointment_requests" =>
            /\ \A i \in 1..2 :
                  IF ArHasExternalId(keyCall.rows[i])
                  THEN keyCall.source_pk[i] =
                         [id |-> FirstPresent(keyCall.rows[i].RecordID), key |-> <<>>]
                  ELSE keyCall.source_pk[i].id = ""
            /\ (\A c \in ArIdentityColumns : keyCall.rows[1][c] = keyCall.rows[2][c])
                  => keyCall.source_pk[1] = keyCall.source_pk[2]

\* The fields of the normalized dict, and the CSV columns, that
\* compute_row_hash reads.
ApptTrackedFields ==
    {"appt_date", "appt_number", "client_first_name", "client_last_name",
     "client_address", "animal_name", "client_email", "client_cell_phone",
     "client_phone"}
ArTrackedColumns ==
    {"NewSubmitted", "Name", "FirstName", "LastName", "Email", "Phone",
     "CatsAddress", "CleanAddress", "Notes", "SubmissionStatus",
     "AppointmentDate"}

\* C20: compute_row_hash gives two normalized rows the same value if and
\* only if all their tracked content fields are equal (the digest taken as
\* injective on the string it is given).
ContentHashTracksContent ==
    keyCall.phase = "returned" =>
      /\ keyCall.table = "appointments" =>
            ((keyCall.row_hash[1] = keyCall.row_hash[2])
               <=> \A f \in ApptTrackedFields :
                      keyCall.normalized[1][f] = keyCall.normalized[2][f])
      /\ keyCall.table = "appointment_requests" =>
            ((keyCall.row_hash[1] = keyCall.row_hash[2])
               <=> \A c \in ArTrackedColumns :
                      FirstPresent(keyCall.rows[1][c]) = FirstPresent(keyCall.rows[2][c]))

-----------------------------------------------------------------------------
(* Claims on the coverage window                                           *)

\* The earliest and the latest of a set of dates; None of no date.
EarliestOf(D) == IF D = {} THEN NoDate ELSE CHOOSE d \in D : \A e \in D : d <= e
LatestOf(D) == IF D = {} THEN NoDate ELSE CHOOSE d \in D : \A e \in D : e <= d

\* The file name starts with two YYYY-MM-DD matches that are dates.
HasLeadingDates(f) ==
    /\ Len(FilenameMatches(f)) >= 2
    /\ FilenameMatches(f)[1] # BadDate
    /\ FilenameMatches(f)[2] # BadDate

\* The window the run should end with.
DerivedWindow(run) ==
    IF HasLeadingDates(run.source_file)
    THEN <<FilenameMatches(run.source_file)[1], FilenameMatches(run.source_file)[2]>>
    ELSE <<EarliestOf(run.dates), LatestOf(run.dates)>>

\* C21: a finished run's window is the two leading dates of the file name
\* when the name has them, else [min, max] of the dates of the rows the run
\* processed; and a run that ends without both bounds marks no row stale.
CoverageWindowDerivation ==
    /\ [](apptRun.phase = "done" =>
            <<apptRun.coverage_start, apptRun.coverage_end>> = DerivedWindow(apptRun))
    /\ [][(/\ apptRun.phase = "rows" /\ apptRun'.phase = "done"
           /\ (apptRun'.coverage_start = NoDate \/ apptRun'.coverage_end = NoDate))
          => (/\ apptRun'.tx = apptRun.tx
              /\ appts' = apptRun.tx
              /\ apptRun'.counters.rows_staled = 0)]_vars

\* A run whose file name starts with a match that is no date ended with the
\* window [min, max] of the two dates of its rows.
WindowFromRows ==
    /\ apptRun.phase = "done"
    /\ apptRun.source_file = "appts_2025-13-01_2025-01-02.xlsx"
    /\ apptRun.dates = {1, 2}
    /\ apptRun.coverage_start = 1 /\ apptRun.coverage_end = 2

-----------------------------------------------------------------------------
(* Claims on killed runs and their re-execution                            *)

\* The candidate table after upsert_candidates has written the batch,
\* no statement failing.
CandidatesAfter(db, batch) == UpsertCandidates(db, batch, FALSE, 0).db.candidates

\* The first k candidates of a batch.
BatchPrefix(batch, k) == SubSeq(batch, 1, k)

\* C22: a run that is killed and then executed again on the same batch ends
\* with the store that one execution of the batch gives.  A run killed
\* before its commit leaves the committed store as it was; a
\* trapping-requests run killed after its commit (the whole batch applied)
\* and executed again leaves every table as the first execution left it;
\* and a batch of candidates upserted after any prefix of itself gives the
\* candidate rows that the batch alone gives.
InterruptedRunsConverge ==
    /\ [][/\ apptRun'.phase = "interrupted" => (appts' = appts /\ apptRun'.tx = appts)
          /\ reqRun'.phase = "interrupted" => (reqdb' = reqdb /\ reqRun'.tx = reqdb)
          /\ matchRun'.phase = "interrupted" => matchdb' = matchdb]_vars
    /\ []((/\ reqRun.phase = "done" /\ reqRun.prior = "committed"
            /\ ~reqRun.geocode_enabled)
             => reqdb = reqRun.first)
    /\ []((matchRun.phase # "idle" /\ matchRun.last.kind = "processed") =>
            \A k \in 0..Len(matchRun.last.all_candidates) :
                CandidatesAfter(
                    [candidates |-> CandidatesAfter(matchRun.last.before,
                                        BatchPrefix(matchRun.last.all_candidates, k)),
                     log |-> {}],
                    matchRun.last.all_candidates)
                = CandidatesAfter(matchRun.last.before, matchRun.last.all_candidates))

----------------------------------------------------------------------------
(* Claims on two runs sharing a coverage window                            *)

\* Both runs have committed.
BothCommitted ==
    /\ pair.phase = "running"
    /\ pair.runs[1].pc = "done"
    /\ pair.runs[2].pc = "done"

\* The stored records both runs upserted.
ObservedByBoth ==
    {x \in appts : x.source_pk \in pair.runs[1].seen \cap pair.runs[2].seen}

\* C23, as the code has it: whether the two runs' transactions overlap or
\* the runs execute one after the other, once both have committed every
\* record observed by both is current (the second upsert of a shared record
\* waits for the first run's commit, which follows that run's stale
\* marking); and when they execute one after the other, every record
\* observed by the later run ends current.
SharedRecordsEndCurrent ==
    BothCommitted =>
      /\ \A x \in ObservedByBoth : x.is_current = TRUE
      /\ pair.serial =>
            \A x \in appts : x.source_pk \in pair.runs[2].seen => x.is_current = TRUE

\* Both runs committed a record they had both upserted, after one of them
\* was made to wait for the other's transaction.
ContendingRunsCommitted ==
    /\ BothCommitted
    /\ ~pair.serial
    /\ pair.waited
    /\ ObservedByBoth # {}
    /\ \A x \in ObservedByBoth : x.is_current = TRUE

\* C23: staleness race without serialization.  With the steps of the two
\* runs interleaved, a record observed by both runs ends with
\* is_current = FALSE: so it does when both files hold the same single row
\* and the runs take their steps in turn (upsert, upsert, stale marking,
\* stale marking, commit, commit).  When the runs execute one after the
\* other, every record observed by the later run ends current.
StalenessRace ==
    BothCommitted =>
      /\ (/\ ~pair.serial
          /\ pair.alternated
          /\ Len(pair.runs[1].file) = 1
          /\ pair.runs[1].file = pair.runs[2].file)
            => \E x \in ObservedByBoth : x.is_current = FALSE
      /\ pair.serial =>
            \A x \in appts : x.source_pk \in pair.runs[2].seen => x.is_current = TRUE

----------------------------------------------------------------------------
(* Claims on the dry-run mode                                              *)

\* C24: a dry run leaves the store unchanged.  No step of a run in dry-run
\* mode changes the committed source rows (with their staleness flags), the
\* run-log rows or the candidate rows, so that after the run the committed
\* store equals the store before it; for the appointments it is the table
\* the run started on.
DryRunLeavesStoreUnchanged ==
    /\ []((apptRun.phase = "done" /\ apptRun.dry_run) => appts = apptRun.tx0)
    /\ [][/\ (apptRun.phase = "rows" /\ apptRun.dry_run)
               => (appts' = appts /\ ingest_runs' = ingest_runs)
          /\ (arRun.phase = "rows" /\ arRun.dry_run) => areqs' = areqs
          /\ (matchRun.phase = "open" /\ matchRun.dry_run) => matchdb' = matchdb]_vars

\* A dry run of the appointments script has ended on a store that holds
\* rows, after its transaction had inserted a row and marked another stale.
DryRunRolledBack ==
    /\ apptRun.phase = "done"
    /\ apptRun.dry_run
    /\ appts # {}
    /\ apptRun.counters.rows_inserted > 0
    /\ apptRun.counters.rows_staled > 0
    /\ apptRun.tx # appts

----------------------------------------------------------------------------
(* Claims on database errors inside upsert_candidates                      *)

\* The batch just given to upsert_candidates by a run that is not dry.
BatchUpserted ==
    /\ matchRun.last.kind = "processed"
    /\ ~matchRun.dry_run

\* C25: per-row database errors do not abort the batch.  When the insert of
\* one candidate raises a database error inside upsert_candidates, that
\* candidate is counted as skipped, every other candidate of the batch is
\* persisted when the batch commits, and inserted + skipped is the number
\* of candidates.
RowErrorDoesNotAbortBatch ==
    BatchUpserted =>
      LET batch == matchRun.last.all_candidates IN
      /\ matchRun.last.candidates_inserted + matchRun.last.candidates_skipped
            = Len(batch)
      /\ matchRun.last.fail_at > 0 =>
            /\ matchRun.last.candidates_skipped >= 1
            /\ \A i \in (1..Len(batch)) \ {matchRun.last.fail_at} :
                  \E r \in matchdb.candidates : Triple(r) = Triple(batch[i])

----------------------------------------------------------------------------
(* Claims on a failing geocoding call                                      *)

\* The geocoding call made for the last row failed: a non-OK answer
\* ("none"), or an HTTP error status or a timeout ("raise").
GeocodingFailed ==
    /\ reqRun.last.kind \in {"upsert", "raise"}
    /\ reqRun.last.geo \in {"none", "raise"}

\* C26: a geocoding failure degrades to no coordinates.  When the geocoding
\* call for a row fails in any way, the row is still upserted, with
\* coordinates absent, and the run goes on to the later rows and to its
\* commit, so that the rows upserted earlier in the batch are committed.
GeocodingFailureDegrades ==
    GeocodingFailed =>
      /\ reqRun.last.kind = "upsert"
      /\ reqRun.last.lat = NULL \/ reqRun.last.lng = NULL
      /\ reqRun.phase \in {"rows", "done"}
      /\ reqRun.pos > reqRun.last.pos

----------------------------------------------------------------------------
(* Claims on the legacy mode                                               *)

StalenessColumns == {"last_seen_run_id", "is_current", "stale_at"}

\* Record r without the three staleness columns.
WithoutStaleness(r) == [k \in (DOMAIN r) \ StalenessColumns |-> r[k]]

\* C27: legacy mode skips staleness only.  When the capability probe does
\* not find the three staleness columns, the run marks no row stale and
\* writes no last_seen_run_id, is_current or stale_at value, while every
\* dated row is upserted, and merged into the stored row as the windowed
\* mode merges it.
LegacyModeSkipsStalenessOnly ==
    ~schema.windowed =>
      /\ \A r \in appts \cup apptRun.tx : (DOMAIN r) \cap StalenessColumns = {}
      /\ apptRun.counters.rows_staled = 0
      /\ apptRun.last.kind = "skip" => apptRun.last.ex.appt_date = NoDate
      /\ apptRun.last.kind = "insert" =>
            /\ apptRun.last.new \in apptRun.tx
            /\ apptRun.last.new =
                  WithoutStaleness(Override(apptRun.last.ex,
                                            WindowedColumns(apptRun.run_id)))
      /\ apptRun.last.kind = "update" =>
            /\ apptRun.last.new \in apptRun.tx
            /\ apptRun.last.new =
                  WithoutStaleness(Override(
                      ApptConflictUpdate(apptRun.last.old, apptRun.last.ex),
                      WindowedColumns(apptRun.run_id)))

\* A legacy run has ended with a final coverage window, after it had
\* upserted a row and left a row of the window, stored by an earlier run,
\* unseen.
LegacyRunDone ==
    /\ ~schema.windowed
    /\ apptRun.phase = "done"
    /\ ~apptRun.dry_run
    /\ apptRun.coverage_start # NoDate
    /\ apptRun.counters.rows_inserted + apptRun.counters.rows_updated > 0
    /\ \E r \in appts : /\ r.source_file # apptRun.source_file
                        /\ r.appt_date >= apptRun.coverage_start
                        /\ r.appt_date <= apptRun.coverage_end

----------------------------------------------------------------------------
(* Claims on the skipped trapping-request rows                             *)

\* The next row of the file is not blank and has no case number.
NextRowLacksCaseNumber ==
    /\ reqRun.phase = "rows"
    /\ reqRun.pos <= Len(reqRun.file)
    /\ ~ReqIsBlankRow(reqRun.file[reqRun.pos])
    /\ Strip(reqRun.file[reqRun.pos].CaseNumber) = ""

\* The next row's case number is that of an earlier, processed row of the
\* same file.
NextRowRepeatsCaseNumber ==
    /\ reqRun.phase = "rows"
    /\ reqRun.pos <= Len(reqRun.file)
    /\ Strip(reqRun.file[reqRun.pos].CaseNumber) # ""
    /\ \E i \in 1..(reqRun.pos - 1) :
          /\ Strip(reqRun.file[i].CaseNumber) = Strip(reqRun.file[reqRun.pos].CaseNumber)
          /\ ~ReqIsBlankRow(reqRun.file[i])

\* C28: skipped rows.  A trapping-request row with no case number, or with
\* a case number already processed earlier in the same file, causes no
\* store write, increments exactly one skip counter (its own) and leaves
\* the run at the next row of the file.
SkippedRowsWriteNothing ==
    [][(NextRowLacksCaseNumber \/ NextRowRepeatsCaseNumber) =>
         /\ reqRun'.tx = reqRun.tx
         /\ reqdb' = reqdb
         /\ reqRun'.counters =
               IF NextRowLacksCaseNumber
               THEN [reqRun.counters EXCEPT !.skipped_missing_case_number = @ + 1]
               ELSE [reqRun.counters EXCEPT !.skipped_dupe_case_in_file = @ + 1]
         /\ reqRun'.phase = "rows"
         /\ reqRun'.pos = reqRun.pos + 1]_vars

\* A row was upserted right after a row passed over for its repeated case
\* number.
RowProcessedAfterSkip ==
    /\ reqRun.last.kind = "upsert"
    /\ reqRun.last.pos = 3
    /\ reqRun.counters.skipped_dupe_case_in_file = 1

----------------------------------------------------------------------------
(* Claims on the status mapping                                            *)

\* The texts the fixed table of coerce_request_status lists.
SourceStatusTexts ==
    { "new", "requested", "needs attention", "need to re-book", "need to re book",
      "in progress", "partially complete", "revisit", "complete/closed",
      "complete / closed", "complete", "closed", "hold", "referred elsewhere",
      "duplicate request", "duplicate", "denied" }

\* The cell holds a text of the source status vocabulary: a text of the
\* fixed table, or the name of a canonical status, whatever its case, its
\* spacing and the punctuation between its words.
InStatusVocabulary(raw) ==
    \/ CollapseSpaces(Lower(Strip(raw))) \in SourceStatusTexts
    \/ SnakeCase(CollapseSpaces(Lower(Strip(raw)))) \in RequestStatuses

RECURSIVE EditDistance(_, _)
EditDistance(a, b) ==
    IF a = <<>> THEN Len(b)
    ELSE IF b = <<>> THEN Len(a)
    ELSE LET del == EditDistance(Tail(a), b) + 1
             ins == EditDistance(a, Tail(b)) + 1
             sub == EditDistance(Tail(a), Tail(b)) + (IF Head(a) = Head(b) THEN 0 ELSE 1)
         IN  IF del <= ins /\ del <= sub THEN del
             ELSE IF ins <= sub THEN ins ELSE sub

\* The name in lower case, without whitespace at its ends and with one
\* space for every run of whitespace inside.
IsNormalizedFormOf(n, name) ==
    LET low == LowerStr(name)
        kept == { i \in 1..Len(low) :
                    \/ low[i] # " "
                    \/ /\ i > 1
                       /\ low[i - 1] # " "
                       /\ \E j \in (i + 1)..Len(low) : low[j] # " " }
    IN  /\ Len(n) = Cardinality(kept)
        /\ \A i \in kept : n[Cardinality({k \in kept : k <= i})] = low[i]

LongerLen(a, b) == IF Len(a) >= Len(b) THEN Len(a) ELSE Len(b)

\* C30: name similarity.  levenshtein_distance is the edit distance of its
\* two strings; name_similarity works on the names in lower case with
\* whitespace trimmed and collapsed, equals 1 - distance / max(len_a, len_b),
\* lies in [0, 1], is the same for the names swapped, is 1 exactly when the
\* normalized names are equal and not empty, and is 0 when a name is empty.
SimilarityIsNormalizedEditDistance ==
    (fnCall.phase = "returned" /\ fnCall.fn = "similarity") =>
      LET sim == fnCall.similarity
          n1 == fnCall.n1
          n2 == fnCall.n2
      IN  /\ fnCall.raw_distance = EditDistance(fnCall.name1, fnCall.name2)
          /\ fnCall.distance = EditDistance(n1, n2)
          /\ IsNormalizedFormOf(n1, fnCall.name1)
          /\ IsNormalizedFormOf(n2, fnCall.name2)
          /\ sim.d > 0
          /\ (n1 # <<>> /\ n2 # <<>>) =>
                sim.n * LongerLen(n1, n2)
                  = (LongerLen(n1, n2) - EditDistance(n1, n2)) * sim.d
          /\ 0 <= sim.n /\ sim.n <= sim.d
          /\ sim.n * fnCall.swapped.d = fnCall.swapped.n * sim.d
          /\ (sim.n = sim.d) <=> (n1 = n2 /\ n1 # <<>>)
          /\ (fnCall.name1 = <<>> \/ fnCall.name2 = <<>>) => sim.n = 0

\* Two names that differ in case, in spacing and in one letter were
\* compared: two edits between "a b" and "aa", similarity 1/3.
NamesTwoEditsApart ==
    /\ fnCall.phase = "returned"
    /\ fnCall.fn = "similarity"
    /\ fnCall.name1 = <<"A", " ", " ", "B">>
    /\ fnCall.name2 = <<" ", "a", "a">>
    /\ fnCall.n1 = <<"a", " ", "b">>
    /\ fnCall.n2 = <<"a", "a">>
    /\ fnCall.distance = 2
    /\ fnCall.similarity.n * 3 = fnCall.similarity.d

\* The stored appointment and the incoming one agree on every identifying
\* field: date, owner names, address and animal name.
SameAppointment(r, ex) ==
    /\ r.appt_date = ex.appt_date
    /\ r.client_first_name = ex.client_first_name
    /\ r.client_last_name = ex.client_last_name
    /\ r.client_address = ex.client_address
    /\ r.animal_name = ex.animal_name

\* The stored request and the incoming one agree on every identifying field:
\* submission time, e-mail, phone and the cats' address.
SameRequest(r, ex) ==
    /\ r.submitted_at = ex.submitted_at
    /\ r.email = ex.email
    /\ r.phone = ex.phone
    /\ r.cats_address = ex.cats_address

\* An appointment stored without a number is imported again with one, and
\* the call inserts a row.
ApptGainedIdInserted ==
    /\ rowsDone' = rowsDone + 1
    /\ apptRun'.phase = "rows"
    /\ apptRun'.last.kind = "insert"
    /\ apptRun'.last.ex.source_pk.num # NoNum
    /\ \E r \in apptRun.tx :
          r.source_pk.num = NoNum /\ SameAppointment(r, apptRun'.last.ex)

\* A request stored without a record id is imported again with one, and the
\* call inserts a row.
ArGainedIdInserted ==
    /\ rowsDone' = rowsDone + 1
    /\ arRun'.phase = "rows"
    /\ arRun'.last.kind = "insert"
    /\ arRun'.last.ex.source_pk.id # ""
    /\ \E r \in arRun.tx :
          r.source_pk.id = "" /\ SameRequest(r, arRun'.last.ex)

\* C31: a logical record keeps one identity when it gains an external id.
\* When a record stored without an externally issued id (no Airtable record
\* id, appointment number absent or zero) is imported again with one, the
\* import updates the stored row and inserts no second row for the record.
GainedIdUpdatesStoredRow ==
    [][~ApptGainedIdInserted /\ ~ArGainedIdInserted]_vars

\* C32: the stored merge pair is consistent.  A stored case with both
\* merged_into_source_record_id and merged_into_case_number has as
\* merged_into_case_number the case number resolved for that same target
\* record id: after every upsert the pair of the stored case is the pair
\* the row's resolution gave, or the pair the case had before.
StoredMergePairConsistent ==
    reqRun.last.kind = "upsert" =>
        LET l == reqRun.last IN
        ( /\ l.new.merged_into_source_record_id # NULL
          /\ l.new.merged_into_case_number # NULL ) =>
            \/ /\ l.new.merged_into_source_record_id = l.ex.merged_into_source_record_id
               /\ l.new.merged_into_case_number = l.ex.merged_into_case_number
            \/ /\ ~l.inserted
               /\ l.new.merged_into_source_record_id = l.old.merged_into_source_record_id
               /\ l.new.merged_into_case_number = l.old.merged_into_case_number

\* C33: merge targets are canonical.  After any import, the case named by
\* a stored merged_into_case_number is not the referring case and is itself
\* not merged into another case: no chain of two hops and no cycle.
MergeTargetsCanonical ==
    reqRun.phase = "done" =>
        \A r \in reqdb.requests :
            r.merged_into_case_number # NULL =>
                /\ r.merged_into_case_number # r.case_number
                /\ \A t \in reqdb.requests :
                      t.case_number = r.merged_into_case_number =>
                          t.merged_into_case_number = NULL

\* C34: merge links point at existing cases.  In every committed store
\* state each non-null merged_into_case_number is the case_number of a case
\* in the store, whether the pre-scan of the file or the database lookup
\* resolved it.
MergeLinksPointAtStoredCases ==
    \A r \in reqdb.requests :
        r.merged_into_case_number # NULL =>
            \E t \in reqdb.requests : t.case_number = r.merged_into_case_number

\* A run whose last row was resolved by the database lookup has committed,
\* next to a case an earlier row or run linked from the pre-scan or the
\* lookup.
LinkResolvedFromDatabaseCommitted ==
    /\ reqRun.phase = "done"
    /\ reqRun.last.kind = "upsert"
    /\ reqRun.last.resolved_from = "db"
    /\ \E r \in reqdb.requests :
          /\ r.case_number = reqRun.last.ex.case_number
          /\ r.merged_into_case_number = reqRun.last.ex.merged_into_case_number
          /\ r.merged_into_case_number # NULL

\* The write of the triple of r that was executed last.
LatestWritesOf(r) == {w \in WritesOf(r) : w.n = Cardinality(WritesOf(r))}

\* The stored evidence of every candidate is the evidence computed with its
\* stored confidence: a write of the triple carried both, and the tier in
\* the evidence is the tier function applied to the stored confidence.
StoredEvidenceOfStoredConfidence ==
    \A r \in matchdb.candidates :
        /\ r.evidence.tier = TierOf(r.confidence)
        /\ \E w \in WritesOf(r) :
              w.confidence = r.confidence /\ w.evidence = r.evidence

\* C35: the stored evidence does not overstate the stored confidence.
\* After any sequence of upserts of a triple the stored evidence is that of
\* the latest upsert, whose confidence is at most the stored confidence, and
\* the tier in the evidence is not below the tier of the stored confidence.
StoredEvidenceNotAboveStoredConfidence ==
    \A r \in matchdb.candidates :
        /\ LatestWritesOf(r) # {}
        /\ \A w \in LatestWritesOf(r) :
              /\ r.evidence = w.evidence
              /\ w.confidence <= r.confidence
        /\ r.evidence.tier >= TierOf(r.confidence)

\* A triple was written again with a lower confidence: the stored evidence
\* is that of the lower computation, its tier below the tier of the stored
\* confidence.
LowerTierEvidenceStored ==
    \E r \in matchdb.candidates : \E w \in LatestWritesOf(r) :
        /\ w.n >= 2
        /\ w.confidence < r.confidence
        /\ r.evidence = w.evidence
        /\ r.evidence.tier > TierOf(r.confidence)

\* The row is current and has no stale timestamp, or is not current and has
\* one.
FlagAgreesWithStaleAt(r) == (r.is_current = TRUE) <=> (r.stale_at = NULL)

\* C36: the current flag and the stale timestamp agree.  In every state of
\* the store reached by windowed runs, committed or inside a run, an
\* appointment is current exactly when its stale_at is null; the row an
\* upsert leaves is current with stale_at null, and every row a run's stale
\* marking turned is not current and has a stale timestamp.
CurrentFlagAgreesWithStaleAt ==
    schema.windowed =>
        /\ \A r \in appts \cup apptRun.tx : FlagAgreesWithStaleAt(r)
        /\ (apptRun.phase = "rows" /\ apptRun.last.kind \in {"insert", "update"}) =>
              /\ apptRun.last.new.is_current = TRUE
              /\ apptRun.last.new.stale_at = NULL
        /\ apptRun.phase = "done" =>
              \A r \in apptRun.tx :
                  (\E o \in apptRun.tx0 : o.source_pk = r.source_pk /\ o.is_current
                        /\ ~r.is_current) =>
                      r.stale_at # NULL

\* An appointment that a run had marked stale was upserted again and is
\* current, with no stale timestamp.
StaleRowRevived ==
    /\ schema.windowed
    /\ apptRun.phase = "rows"
    /\ apptRun.last.kind = "update"
    /\ apptRun.last.old.is_current = FALSE
    /\ apptRun.last.old.stale_at # NULL
    /\ apptRun.last.new.is_current = TRUE
    /\ apptRun.last.new.stale_at = NULL

\* One of the signals of calculate_match fired for the pair: equal phones
\* of ten digits, equal e-mails, or a name similarity of 0.7 or more.
SignalFired(source, person) ==
    \/ SamePhone(source, person)
    \/ SameEmail(source, person)
    \/ FracGeq(NameSimilarity(source.display_name, person.display_name), Frac(7, 10))

\* C37: the acceptance floor is never reached.  Every candidate
\* calculate_match returns has a confidence of 0.71 or more and a tier in
\* {0, 1, 2}; a pair for which a signal fired is returned, so a pair is
\* discarded only when no signal fired.
AcceptanceFloorNeverReached ==
    (fnCall.phase = "returned" /\ fnCall.fn = "calculate_match") =>
        /\ Len(fnCall.result) <= 1
        /\ \A i \in 1..Len(fnCall.result) :
              /\ fnCall.result[i].confidence >= 710
              /\ fnCall.result[i].evidence.tier \in {0, 1, 2}
        /\ (fnCall.result = <<>>) <=> ~SignalFired(fnCall.source, fnCall.person)

\* Two names of similarity 0.7 with no phone or e-mail in common gave the
\* candidate of the least confidence, 0.71, in tier 2.
LeastConfidenceReturned ==
    /\ fnCall.phase = "returned"
    /\ fnCall.fn = "calculate_match"
    /\ Len(fnCall.result) = 1
    /\ fnCall.result[1].confidence = 710
    /\ fnCall.result[1].evidence.tier = 2
    /\ fnCall.result[1].evidence.name_similarity = 700

====
